---------------------------- MODULE Spec2Model ----------------------------
(***************************************************************************)
(* The session state machine and pipeline orchestrator of the story-video  *)
(* generator: src/api/server.py (create_session,                           *)
(* generate_scripts_for_session, api_run_session, run_pipeline) and the    *)
(* helper natural_segment_order of src/main.py.                            *)
(*                                                                         *)
(* One session is modelled.  status.json and scripts.json are the files of *)
(* that session; every accepted run request schedules one background task  *)
(* (run_pipeline), and the tasks of several requests run concurrently,     *)
(* each with its own local `status` dictionary.  The tasks form a bag of   *)
(* records: a task has no identity beyond its local state.                 *)
(*                                                                         *)
(* An action of run_pipeline is the code between two writes of             *)
(* status.json, the second write included: the collaborator calls of one   *)
(* segment touch nothing the other tasks or handlers read.                 *)
(***************************************************************************)
EXTENDS Integers, Sequences, FiniteSets, Bags, TLC

(* ------------------------------ bounds -------------------------------- *)
\* run requests accepted for the session (one background task each)
MaxRuns == 2
\* segments of a candidate script
MaxSegs == 2
\* length of the list handed to natural_segment_order on its own
MaxList == 3
\* the largest VIDEO_GEN_MAX_RETRIES and VIDEO_GEN_WAIT_SECONDS drawn
MaxRetries == 2
MaxWait == 2
\* the longest clip and the longest target, in milliseconds
MaxDur == 5
\* the number of prompt stages (of concurrent or successive runs)
MaxStages == 2
\* the number of calls of create_session, and the seconds the clock runs
MaxCreates == 2
MaxSeconds == 1
\* the latest subtitle time and the longest subtitled video, in steps of
\* 50 milliseconds
MaxSubtitleSteps == 4
\* the number of images of a slideshow segment
MaxImages == 2
\* the number of collaborator calls that fail while a segment is processed
MaxFailures == 1
\* the number of components of the relpath of an artifact request
MaxRelpath == 3

(* ------------------------- strings and keys --------------------------- *)
\* A key is a sequence of one-character strings.
Digits == {"0", "1", "2"}

DigitVal(c) == CASE c = "0" -> 0 [] c = "1" -> 1 [] c = "2" -> 2

\* position of the first digit of s, or 0
RECURSIVE FirstDigitFrom(_, _)
FirstDigitFrom(s, p) ==
    IF p > Len(s) THEN 0
    ELSE IF s[p] \in Digits THEN p
    ELSE FirstDigitFrom(s, p + 1)

\* last position of the run of digits that starts at p
RECURSIVE RunEnd(_, _)
RunEnd(s, p) ==
    IF p + 1 <= Len(s) /\ s[p + 1] \in Digits THEN RunEnd(s, p + 1) ELSE p

\* int() of the digits s[p..q]
RECURSIVE DecimalValue(_, _, _)
DecimalValue(s, p, q) ==
    IF q < p THEN 0 ELSE 10 * DecimalValue(s, p, q - 1) + DigitVal(s[q])

\* a variant that sorts a key without digits behind every numbered key
seg_key_undigited_last(s) ==
    LET p == FirstDigitFrom(s, 1)
    IN  IF p = 0 THEN 1000 ELSE DecimalValue(s, p, RunEnd(s, p))

\* seg_key of natural_segment_order: int(re.findall(r"\d+", s)[0]), else 0
seg_key(s) ==
    LET p == FirstDigitFrom(s, 1)
    IN  IF p = 0 THEN 0 ELSE DecimalValue(s, p, RunEnd(s, p))

\* sorted(..., key=seg_key) is stable: x goes behind every element whose
\* key is not larger.
RECURSIVE InsertByKey(_, _)
InsertByKey(sorted, x) ==
    IF sorted = <<>> THEN <<x>>
    ELSE IF seg_key(sorted[Len(sorted)]) <= seg_key(x) THEN Append(sorted, x)
    ELSE Append(InsertByKey(SubSeq(sorted, 1, Len(sorted) - 1), x),
                sorted[Len(sorted)])

RECURSIVE SortedPrefix(_, _)
SortedPrefix(segments, n) ==
    IF n = 0 THEN <<>>
    ELSE InsertByKey(SortedPrefix(segments, n - 1), segments[n])

natural_segment_order(segments) == SortedPrefix(segments, Len(segments))

\* the keys the model draws from: "s1", "s2", "s10", "s" (no digit),
\* "s02" (leading zero), "2s1" (two runs of digits)
K1   == <<"s", "1">>
K2   == <<"s", "2">>
K10  == <<"s", "1", "0">>
KS   == <<"s">>
K02  == <<"s", "0", "2">>
K2S1 == <<"2", "s", "1">>
KeyPool == {K1, K2, K10, KS, K02, K2S1}

RECURSIVE ListsUpTo(_, _)
ListsUpTo(S, n) ==
    IF n = 0 THEN {<<>>}
    ELSE LET shorter == ListsUpTo(S, n - 1)
         IN  shorter \cup {Append(l, x) : l \in shorter, x \in S}


(* --------------------------- dictionaries ----------------------------- *)
\* A JSON object / Python dict is a function from its keys to its values.
EmptyDict == [k \in {} |-> "None"]

\* dict.update
Update(d, u) ==
    [k \in DOMAIN d \cup DOMAIN u |-> IF k \in DOMAIN u THEN u[k] ELSE d[k]]

\* Python's None inside a dictionary value
None == "None"

(* ------------------------ candidate script sets ----------------------- *)
\* A candidate is a script (a mapping; only the insertion order of its
\* segment keys is kept) or the invalid marker (the string "ERROR").
Script(keys) == [valid |-> TRUE, segs |-> keys]
InvalidMarker == [valid |-> FALSE, segs |-> <<>>]

\* insertion order of the segment keys of a generated script
KeyOrder == <<K10, K2, K1, KS>>

\* the generated scripts: without segments, or with MaxSegs segments
SegLists == {SubSeq(KeyOrder, 1, n) : n \in {0, MaxSegs}}

\* what the script generator can return as a mapping
CandidateSets ==
    {[script1 |-> Script(l), script2 |-> InvalidMarker] : l \in SegLists}
    \cup {[script1 |-> InvalidMarker, script2 |-> InvalidMarker]}

\* list(scripts.keys())
ScriptKeysOf(scripts) == <<"script1", "script2">>

\* int(re.findall(r"\d+", s)[0]) of a script key, else 0
ScriptNumber(k) ==
    CASE k = "script1" -> 1 [] k = "script2" -> 2 [] k = "script9" -> 9
      [] OTHER -> 0

\* sorted(..., key=...) is stable
RECURSIVE InsertByNumber(_, _)
InsertByNumber(sorted, x) ==
    IF sorted = <<>> THEN <<x>>
    ELSE IF ScriptNumber(sorted[Len(sorted)]) <= ScriptNumber(x)
         THEN Append(sorted, x)
    ELSE Append(InsertByNumber(SubSeq(sorted, 1, Len(sorted) - 1), x),
                sorted[Len(sorted)])

RECURSIVE SortedByNumber(_, _)
SortedByNumber(keys, n) ==
    IF n = 0 THEN <<>>
    ELSE InsertByNumber(SortedByNumber(keys, n - 1), keys[n])

\* [k for k, v in scripts.items() if isinstance(v, dict)]
ValidKeys(scripts) ==
    SelectSeq(ScriptKeysOf(scripts), LAMBDA k : scripts[k].valid)

\* ordered_keys in the response of api_generate_scripts
ordered_keys(scripts) ==
    SortedByNumber(ValidKeys(scripts), Len(ValidKeys(scripts)))

\* the keys pick_script_key lists; it raises when there is none
pick_script_key_menu(scripts) ==
    SortedByNumber(ValidKeys(scripts), Len(ValidKeys(scripts)))

\* scripts.json: absent, a JSON object, or some other JSON value
NoScripts == [kind |-> "absent", map |-> EmptyDict]
OtherJson == [kind |-> "other", map |-> EmptyDict]
ScriptsObject(m) == [kind |-> "dict", map |-> m]

\* the bodies of the run requests the model issues
Payloads ==
    { [script_key |-> "script1", voice |-> "v1", mode |-> "videos"],
      [script_key |-> "script1", voice |-> None, mode |-> "images"],
      [script_key |-> "script2", voice |-> "v1", mode |-> "gif"],
      [script_key |-> "script9", voice |-> None, mode |-> "videos"] }

\* a payload without "script_key", or with a blank one (lines 337-339)
KeylessPayloads == { [script_key |-> "", voice |-> None, mode |-> "videos"] }

(* ------------------------------ stages -------------------------------- *)
\* the collaborator calls of one segment, in program order
StagesVideos ==
    << "run_tts", "prompts", "prompt_fields",
       "generate_image_1", "generate_image_2",
       "audio_duration", "generate_video_1", "adjust_video_1",
       "generate_video_2", "adjust_video_2", "combine_two_videos" >>

StagesImages ==
    << "run_tts", "prompts", "prompt_fields",
       "image_with_fallback_1", "image_with_fallback_2",
       "build_segment_from_images" >>

StagesOf(mode) == IF mode = "videos" THEN StagesVideos ELSE StagesImages

\* the prompt stage catches every exception (server.py 188-204); reading
\* the fields of its result (206-207, "prompt_fields") is outside its try
CanRaise(stage) == stage # "prompts"

\* str(e) of the exceptions the collaborators raise
Messages == {"timeout", "quota exceeded"}

\* segment_video_path of a segment
ClipPath(segKey) == <<"segments", segKey, "mp4">>

VARIABLES
    faultyDisk,   \* whether writes of status.json can fail (OSError)
    sessionDir,   \* the session directory exists
    statusFile,   \* status.json, as _read_status returns it
    scriptsFile,  \* scripts.json
    tasks,        \* the bag of background tasks (run_pipeline calls)
    segments,     \* input of natural_segment_order (ordering alone)
    ordered,      \* its result
    retry,        \* a call of generate_video_with_retries (on its own)
    adjust,       \* a call of adjust_video_to_duration (on its own)
    combine,      \* a call of combine_two_videos (on its own)
    cwd,          \* the working directory of the server process
    promptFiles,  \* image_prompts/ALL_PROMPTS.json, per directory
    stages,       \* the bag of prompt stages of run_pipeline calls
    fallback,     \* the image stage in images mode (on its own)
    crossRuns,    \* run_pipeline threads of two sessions, and what they access
    created,      \* the clock and the sessions create_session has made
    subtitle,     \* a call of burn_subtitles_from_items (on its own)
    slideshow,    \* a call of build_segment_from_images (on its own)
    segrun,       \* one segment, as run_pipeline and as main() process it
    context,      \* a call of generate_prompts_for_script, for its context
    artifact      \* a request of api_get_artifact (on its own)

vars == << faultyDisk, sessionDir, statusFile, scriptsFile, tasks,
           segments, ordered, retry, adjust, combine,
           cwd, promptFiles, stages, fallback,
           crossRuns, created, subtitle, slideshow,
           segrun, context, artifact >>

orderVars == << segments, ordered >>

\* the variables of the session and of its background tasks
sessionVars == << faultyDisk, sessionDir, statusFile, scriptsFile, tasks >>

\* the variables of the functions that are exercised on their own
promptVars == << cwd, promptFiles, stages >>

lastVars == << segrun, context, artifact >>
laterVars == << crossRuns, created, subtitle, slideshow, lastVars >>

callVars == << orderVars, retry, adjust, combine, promptVars, fallback,
               laterVars >>

\* no function is being exercised on its own
NoRetry == [pc |-> "idle"]
NoAdjust == [pc |-> "idle"]
NoCombine == [pc |-> "idle"]
NoFile == [exists |-> FALSE, all |-> EmptyDict]
NoFallback == [pc |-> "idle"]
NoCrossRuns == [pc |-> "idle"]
NoneCreated == [pc |-> "idle"]
NoSubtitle == [pc |-> "idle"]
NoSlideshow == [pc |-> "idle"]
NoSegrun == [pc |-> "idle"]
NoContext == [pc |-> "idle"]
NoArtifact == [pc |-> "idle"]
NoLater ==
    /\ crossRuns = NoCrossRuns
    /\ created = NoneCreated
    /\ subtitle = NoSubtitle
    /\ slideshow = NoSlideshow
    /\ segrun = NoSegrun
    /\ context = NoContext
    /\ artifact = NoArtifact
NoPrompts ==
    /\ cwd = "root"
    /\ promptFiles = [dir \in {"root", "session"} |-> NoFile]
    /\ stages = EmptyBag
    /\ fallback = NoFallback
    /\ NoLater

(* ------------------------------- tasks -------------------------------- *)
\* A scheduled call run_pipeline(session_id, script_key, voice, mode): its
\* arguments, where it stands, and its locals.
Scheduled(p) ==
    [ pc |-> "scheduled", script_key |-> p.script_key, voice |-> p.voice,
      mode |-> p.mode, status |-> EmptyDict, selected_script |-> <<>>,
      seg_keys |-> <<>>, i |-> 0, segment_output_paths |-> <<>>,
      outcome |-> "none", raised |-> None ]

\* A call that returned or raised: its locals are gone.
Ended(how, e) ==
    [ pc |-> "done", script_key |-> "", voice |-> None, mode |-> "",
      status |-> EmptyDict, selected_script |-> <<>>, seg_keys |-> <<>>,
      i |-> 0, segment_output_paths |-> <<>>, outcome |-> how, raised |-> e ]

Tasks == BagToSet(tasks)

\* task t takes a step and becomes t2
Becomes(t, t2) == tasks' = (tasks (-) SetToBag({t})) (+) SetToBag({t2})

(* --------------------------- status helpers --------------------------- *)
WriteOutcomes == IF faultyDisk THEN {TRUE, FALSE} ELSE {TRUE}

\* _write_status: the new content of status.json; an OSError (no session
\* directory, or a failing disk) is swallowed
write_status(payload, ok) ==
    IF sessionDir /\ ok THEN payload ELSE statusFile

\* _read_status: {} when the file cannot be read
read_status == IF sessionDir THEN statusFile ELSE EmptyDict

\* dict.get(key)
Get(d, k) == IF k \in DOMAIN d THEN d[k] ELSE None

\* natural_segment_order has not been called / has returned result
NotCalled == [called |-> FALSE, result |-> <<>>]
Returned(result) == [called |-> TRUE, result |-> result]

(* ------------------------------- Init --------------------------------- *)
Init ==
    /\ faultyDisk = FALSE
    /\ sessionDir = FALSE
    /\ statusFile = EmptyDict
    /\ scriptsFile = NoScripts
    /\ tasks = EmptyBag
    /\ segments = <<>>
    /\ ordered = NotCalled
    /\ retry = NoRetry
    /\ adjust = NoAdjust
    /\ combine = NoCombine
    /\ NoPrompts

(* ---------------------------- create_session -------------------------- *)
InitialStatus ==
    [ session_id |-> "sid", idea |-> "idea", state |-> "created",
      progress |-> [total_segments |-> 0, completed |-> 0],
      artifacts |-> EmptyDict, error |-> None ]

create_session ==
    /\ ~sessionDir
    /\ sessionDir' = TRUE
    /\ \E ok \in WriteOutcomes :
         statusFile' = IF ok THEN InitialStatus ELSE statusFile
    /\ UNCHANGED << faultyDisk, scriptsFile, tasks >>
    /\ UNCHANGED callVars

(* -------------------- generate_scripts_for_session -------------------- *)
\* status.json after the handler's update (lines 114-116)
ScriptsReady(scripts) ==
    Update(read_status,
           [state |-> "scripts_ready", script_keys |-> ScriptKeysOf(scripts)])

\* get_llm_response returns None/{} (nothing written), a JSON value that
\* is no object (written by get_llm_response, then RuntimeError), or a
\* candidate set.
generate_scripts_for_session ==
    /\ \/ \* FileNotFoundError, the generator fails or returns nothing
          /\ UNCHANGED << statusFile, scriptsFile >>
       \/ /\ sessionDir
          /\ scriptsFile' = OtherJson
          /\ UNCHANGED statusFile
       \/ /\ sessionDir
          /\ \E scripts \in CandidateSets :
               /\ scriptsFile' = ScriptsObject(scripts)
               /\ \E ok \in WriteOutcomes :
                    statusFile' = write_status(ScriptsReady(scripts), ok)
    /\ UNCHANGED << faultyDisk, sessionDir, tasks >>
    /\ UNCHANGED callVars

(* --------------------------- api_run_session -------------------------- *)
\* status.json after the handler's update (lines 352-356)
Queued(p) ==
    Update(read_status,
           [ state |-> "queued", selected_script |-> p.script_key,
             voice |-> p.voice, mode |-> p.mode ])

\* A request without a script key is answered 400 and changes nothing.
\* Otherwise the task is scheduled first; it starts after the response,
\* so after the write of "queued".
api_run_session ==
    /\ BagCardinality(tasks) < MaxRuns
    /\ \E p \in Payloads \cup KeylessPayloads :
         IF p.script_key = ""
         THEN UNCHANGED << tasks, statusFile >>
         ELSE /\ tasks' = tasks (+) SetToBag({Scheduled(p)})
              /\ \E ok \in WriteOutcomes :
                   statusFile' = write_status(Queued(p), ok)
    /\ UNCHANGED << faultyDisk, sessionDir, scriptsFile >>
    /\ UNCHANGED callVars

(* ------------------------------ run_pipeline -------------------------- *)
\* voice = voice or default_voice
VoiceOrDefault(voice) == IF voice = None THEN "en-US-AriaNeural" ELSE voice

\* mode = mode if mode in {"videos", "images"} else "videos"
NormalMode(mode) == IF mode \in {"videos", "images"} THEN mode ELSE "videos"

\* a variant that accepts every key of scripts.json
CanStartAnyValue(key) ==
    /\ sessionDir
    /\ scriptsFile.kind = "dict"
    /\ key \in DOMAIN scriptsFile.map

\* the checks of lines 124-141: the directory, scripts.json, the key
CanStart(key) ==
    /\ sessionDir
    /\ scriptsFile.kind = "dict"
    /\ key \in DOMAIN scriptsFile.map
    /\ scriptsFile.map[key].valid

\* progress of a run over n segments
Progress(n, done) == [total_segments |-> n, completed |-> done]

\* lines 148-156: the first snapshot of a run
Running(t, keys) ==
    Update(read_status,
           [ state |-> "running", voice |-> VoiceOrDefault(t.voice),
             mode |-> NormalMode(t.mode), selected_script |-> t.script_key,
             progress |-> Progress(Len(keys), 0) ])

\* a variant of the handler's snapshot that leaves the error out
FailedStatusWithoutError(t, e) == Update(t.status, [state |-> "failed"])

\* lines 290-292: the handler's snapshot
FailedStatus(t, e) == Update(t.status, [state |-> "failed", error |-> e])

\* except Exception as e: status.update(...); _write_status(...); raise
Fail(t, e) ==
    /\ \E ok \in WriteOutcomes :
         statusFile' = write_status(FailedStatus(t, e), ok)
    /\ Becomes(t, Ended("failed", e))

\* a variant of _write_status that lets the OSError through
AfterWriteUnguarded(ok, next, onError) == IF ok THEN next ELSE onError

\* lines 57-61: what the caller of _write_status goes on with; an OSError
\* is caught and passed over, so never onError
AfterWrite(ok, next, onError) == next

\* lines 123-157: the checks, then the first snapshot of the run
RunStart(t) ==
    /\ t.pc = "scheduled"
    /\ IF ~CanStart(t.script_key)
       THEN /\ Becomes(t, Ended("aborted", None))
            /\ UNCHANGED statusFile
       ELSE LET selected == scriptsFile.map[t.script_key].segs
                keys == natural_segment_order(selected)
                st == Running(t, keys)
                next == [t EXCEPT
                        !.pc = IF Len(keys) = 0 THEN "assemble" ELSE "segment",
                        !.voice = VoiceOrDefault(t.voice),
                        !.mode = NormalMode(t.mode),
                        !.selected_script = selected,
                        !.seg_keys = keys,
                        !.status = st,
                        !.i = 1]
            IN  \E ok \in WriteOutcomes :
                  /\ statusFile' = write_status(st, ok)
                  /\ Becomes(t, AfterWrite(ok, next,
                                           Ended("aborted", "OSError")))
    /\ UNCHANGED << faultyDisk, sessionDir, scriptsFile >>
    /\ UNCHANGED callVars

\* lines 164-179: the head of the loop body, up to the status write
SegmentBegin(t) ==
    /\ t.pc = "segment"
    /\ LET st == Update(t.status,
                    [ current_segment |-> t.seg_keys[t.i],
                      progress |-> Progress(Len(t.seg_keys), t.i - 1) ])
           next == [t EXCEPT !.pc = "stages", !.status = st]
       IN  \E ok \in WriteOutcomes :
             /\ statusFile' = write_status(st, ok)
             /\ Becomes(t, AfterWrite(ok, next, Ended("failed", "OSError")))
    /\ UNCHANGED << faultyDisk, sessionDir, scriptsFile >>
    /\ UNCHANGED callVars

\* a variant that counts segment i only once the next segment begins
SegmentDoneUncounted(t) ==
    Update(t.status, [progress |-> Progress(Len(t.seg_keys), t.i - 1)])

\* lines 255-258: the snapshot after segment i
SegmentDone(t) ==
    Update(t.status, [progress |-> Progress(Len(t.seg_keys), t.i)])

\* a variant that puts the newest clip first
PrependClip(paths, segKey) == <<ClipPath(segKey)>> \o paths

\* lines 246 and 253: segment_output_paths.append(segment_video_path)
AppendClip(paths, segKey) == Append(paths, ClipPath(segKey))

\* lines 181-258: the stages of segment i, then the progress write; a
\* stage that raises ends the run in the handler of lines 290-293
SegmentStages(t) ==
    /\ t.pc = "stages"
    /\ \/ LET st == SegmentDone(t)
              next == [t EXCEPT
                      !.pc = IF t.i < Len(t.seg_keys)
                             THEN "segment" ELSE "assemble",
                      !.segment_output_paths =
                          AppendClip(@, t.seg_keys[t.i]),
                      !.status = st,
                      !.i = @ + 1]
          IN  \E ok \in WriteOutcomes :
                /\ statusFile' = write_status(st, ok)
                /\ Becomes(t, AfterWrite(ok, next,
                                         Ended("failed", "OSError")))
       \/ /\ \E j \in DOMAIN StagesOf(t.mode) : CanRaise(StagesOf(t.mode)[j])
          /\ \E e \in Messages : Fail(t, e)
    /\ UNCHANGED << faultyDisk, sessionDir, scriptsFile >>
    /\ UNCHANGED callVars

\* lines 279-288: the snapshot of a run that succeeded
Completed(t) ==
    Update(t.status,
           [ state |-> "completed",
             artifacts |-> [ final |-> "final_output.mp4",
                             subtitled |-> "final_output_subtitled.mp4",
                             segments |-> t.segment_output_paths ] ])

\* lines 260-289: concatenate_segments and auto_subtitle_with_whisper, then
\* the snapshot "completed"; concatenate_videoclips raises on an empty list
Assemble(t) ==
    /\ t.pc = "assemble"
    /\ \/ /\ t.segment_output_paths # <<>>
          /\ \E ok \in WriteOutcomes :
               /\ statusFile' = write_status(Completed(t), ok)
               /\ Becomes(t, AfterWrite(ok, Ended("completed", None),
                                        Ended("failed", "OSError")))
       \/ \E e \in Messages : Fail(t, e)
    /\ UNCHANGED << faultyDisk, sessionDir, scriptsFile >>
    /\ UNCHANGED callVars

run_pipeline(t) ==
    \/ RunStart(t)
    \/ SegmentBegin(t)
    \/ SegmentStages(t)
    \/ Assemble(t)

(* ---------------------------- specification --------------------------- *)
Next ==
    \/ create_session
    \/ generate_scripts_for_session
    \/ api_run_session
    \/ \E t \in Tasks : run_pipeline(t)

Spec == Init /\ [][Next]_vars

(* ------------------ the session on a disk that fails ------------------ *)
\* Every write of status.json may fail with an OSError.  One run is
\* requested, at any moment of the session's life.
InitFaulty ==
    /\ faultyDisk = TRUE
    /\ sessionDir = FALSE
    /\ statusFile = EmptyDict
    /\ scriptsFile = NoScripts
    /\ tasks = EmptyBag
    /\ segments = <<>>
    /\ ordered = NotCalled
    /\ retry = NoRetry
    /\ adjust = NoAdjust
    /\ combine = NoCombine
    /\ NoPrompts

api_run_session_once ==
    /\ tasks = EmptyBag
    /\ api_run_session

NextFaulty ==
    \/ create_session
    \/ generate_scripts_for_session
    \/ api_run_session_once
    \/ \E t \in Tasks : run_pipeline(t)

SpecFaulty == InitFaulty /\ [][NextFaulty]_vars

(* --------------- natural_segment_order on its own --------------------- *)
\* every list of at most MaxList keys of the pool, repetitions included
InitOrder ==
    /\ faultyDisk = FALSE
    /\ sessionDir = FALSE
    /\ statusFile = EmptyDict
    /\ scriptsFile = NoScripts
    /\ tasks = EmptyBag
    /\ segments \in ListsUpTo(KeyPool, MaxList)
    /\ ordered = NotCalled
    /\ retry = NoRetry
    /\ adjust = NoAdjust
    /\ combine = NoCombine
    /\ NoPrompts

OrderCall ==
    /\ ~ordered.called
    /\ ordered' = Returned(natural_segment_order(segments))
    /\ UNCHANGED << sessionVars, segments, retry, adjust, combine,
                    promptVars,
                    fallback, laterVars >>

NextOrder == OrderCall

SpecOrder == InitOrder /\ [][NextOrder]_vars

(* ------------- generate_video_with_retries on its own ----------------- *)
\* The session is absent while a function is exercised on its own.
NoSession ==
    /\ faultyDisk = FALSE
    /\ sessionDir = FALSE
    /\ statusFile = EmptyDict
    /\ scriptsFile = NoScripts
    /\ tasks = EmptyBag

\* lines 97-100: the environment is read, attempt = 0, last_err = None.
\* wait_s and max_retries are whatever the environment holds, negative
\* values included; times are whole units.
RetryBegin(wait_s, max_retries) ==
    [ pc |-> "loop", wait_s |-> wait_s, max_retries |-> max_retries,
      attempt |-> 0, last_err |-> None,
      calls |-> 0,        \* invocations of generate_video_from_image
      failures |-> <<>>,  \* what they raised, in order
      slept |-> 0,        \* time slept since the last invocation
      sleeps |-> 0,       \* calls of time.sleep since the last invocation
      result |-> None, message |-> None ]

InitRetry ==
    /\ NoSession
    /\ segments = <<>>
    /\ ordered = NotCalled
    /\ retry \in { RetryBegin(w, m) : w \in -1..MaxWait, m \in -1..MaxRetries }
    /\ adjust = NoAdjust
    /\ combine = NoCombine
    /\ NoPrompts

\* a backoff variant: the wait grows with the attempt
SleepBackoff(wait_s, attempt) == wait_s * (attempt + 1)

\* line 107: time.sleep(wait_s)
SleepFor(wait_s, attempt) == wait_s

\* a variant that gives up one attempt early
MayAttemptBelow(attempt, max_retries) == attempt < max_retries

\* line 102: while attempt <= max_retries
MayAttempt(attempt, max_retries) == attempt <= max_retries

\* lines 102-107: the loop test, then the wait before the attempt
RetryWait ==
    /\ retry.pc = "loop"
    /\ MayAttempt(retry.attempt, retry.max_retries)
    /\ retry' = IF retry.wait_s > 0
                THEN [retry EXCEPT
                        !.pc = "invoke",
                        !.slept = @ + SleepFor(retry.wait_s, retry.attempt),
                        !.sleeps = @ + 1]
                ELSE [retry EXCEPT !.pc = "invoke"]
    /\ UNCHANGED << sessionVars, orderVars, adjust, combine, promptVars,
                    fallback, laterVars >>

\* lines 108-119: one invocation of generate_video_from_image; it returns
\* a name or raises
RetryInvoke ==
    /\ retry.pc = "invoke"
    /\ \/ retry' = [retry EXCEPT
                       !.pc = "returned", !.calls = @ + 1,
                       !.slept = 0, !.sleeps = 0,
                       !.result = "name"]
       \/ \E e \in Messages :
            retry' = [retry EXCEPT
                        !.pc = "loop", !.calls = @ + 1,
                        !.slept = 0, !.sleeps = 0,
                        !.failures = Append(@, e),
                        !.last_err = e, !.attempt = @ + 1]
    /\ UNCHANGED << sessionVars, orderVars, adjust, combine, promptVars,
                    fallback, laterVars >>

\* lines 121-123: the loop is left; RuntimeError with the attempt count
\* and last_err in its message
RetryRaise ==
    /\ retry.pc = "loop"
    /\ ~MayAttempt(retry.attempt, retry.max_retries)
    /\ retry' = [retry EXCEPT
                   !.pc = "raised",
                   !.message = [attempts |-> retry.attempt,
                                cause |-> retry.last_err]]
    /\ UNCHANGED << sessionVars, orderVars, adjust, combine, promptVars,
                    fallback, laterVars >>

NextRetry == RetryWait \/ RetryInvoke \/ RetryRaise

SpecRetry == InitRetry /\ [][NextRetry]_vars

(* --------------- adjust_video_to_duration on its own ------------------ *)
\* Durations are whole milliseconds.  A clip is its frames, one per
\* millisecond: frames[k] is what get_frame returns at time k - 1.
\* line 141: tol = 1e-3
Tol == 1

\* the frame rates drawn, chosen so that 1/fps is 4, 2 or 1 ms
FpsPool == {250, 500, 1000}

\* 1.0 / fps, in milliseconds
FramePeriod(fps) == 1000 \div fps

\* the frames of a file of d milliseconds; frame k of the file is k
FileFrames(d) == [k \in 1..d |-> k]

\* VideoFileClip(video_path): the reader serves the first frame of the
\* file at time 0 also when the duration it reports is 0
VideoFileClip(d) == [duration |-> d, frames |-> FileFrames(d), first |-> 1]

\* clip.get_frame(t)
get_frame(clip, t) == IF t + 1 \in DOMAIN clip.frames THEN clip.frames[t + 1]
                      ELSE clip.first

\* clip.subclip(0, t_end)
subclip(clip, t_end) ==
    [clip EXCEPT !.duration = t_end, !.frames = SubSeq(clip.frames, 1, t_end)]

\* ImageClip(frame).set_duration(d)
ImageClip(frame, d) ==
    [duration |-> d, frames |-> [k \in 1..d |-> frame], first |-> frame]

\* concatenate_videoclips([a, b], method="compose")
concatenate_videoclips(a, b) ==
    [duration |-> a.duration + b.duration, frames |-> a.frames \o b.frames,
     first |-> a.first]

\* a variant that samples the still frame at the start of the clip
SampleAtStart(cur, fps) == 0

\* line 146: safe_t = max(cur - 1.0 / fps, 0)
safe_t(cur, fps) ==
    IF cur - FramePeriod(fps) > 0 THEN cur - FramePeriod(fps) ELSE 0

\* a variant that holds the still frame for the whole target duration
PadForTarget(target_duration, cur) == target_duration

\* line 148: the duration of pad_clip
PadDuration(target_duration, cur) == target_duration - cur

\* lines 140-151: final_clip
adjust_video_to_duration(clip, target_duration, fps) ==
    LET cur == clip.duration
    IN  IF cur > target_duration + Tol
        THEN subclip(clip, target_duration)
        ELSE IF cur < target_duration - Tol
        THEN LET last_frame == get_frame(clip, safe_t(cur, fps))
                 pad_clip == ImageClip(last_frame,
                                       PadDuration(target_duration, cur))
             IN  concatenate_videoclips(clip, pad_clip)
        ELSE clip

InitAdjust ==
    /\ NoSession
    /\ segments = <<>>
    /\ ordered = NotCalled
    /\ retry = NoRetry
    /\ adjust \in { [pc |-> "called", clip |-> VideoFileClip(d),
                      target_duration |-> t, fps |-> f, final_clip |-> None] :
                      d \in 0..MaxDur, t \in 1..MaxDur, f \in FpsPool }
    /\ combine = NoCombine
    /\ NoPrompts

AdjustCall ==
    /\ adjust.pc = "called"
    /\ adjust' = [adjust EXCEPT
                    !.pc = "returned",
                    !.final_clip = adjust_video_to_duration(
                                      adjust.clip, adjust.target_duration,
                                      adjust.fps)]
    /\ UNCHANGED << sessionVars, orderVars, retry, combine, promptVars,
                    fallback, laterVars >>

NextAdjust == AdjustCall

SpecAdjust == InitAdjust /\ [][NextAdjust]_vars

(* ------------------- combine_two_videos on its own -------------------- *)
\* combine.py line 15: tol = 1e-3, in milliseconds
CombineTol == 1

\* AudioFileClip(audio_path)
AudioFileClip(d) == [duration |-> d]

\* aud.subclip(0, t_end)
audio_subclip(aud, t_end) == [aud EXCEPT !.duration = t_end]

\* a variant that clamps to the longer of the two tracks
final_dur_longest(vid_dur, aud_dur) ==
    LET longest == IF vid_dur > aud_dur THEN vid_dur ELSE aud_dur
    IN  IF longest - CombineTol > 0 THEN longest - CombineTol ELSE 0

\* line 18: final_dur = max(min(vid_dur, aud_dur) - tol, 0)
final_dur(vid_dur, aud_dur) ==
    LET shortest == IF vid_dur < aud_dur THEN vid_dur ELSE aud_dur
    IN  IF shortest - CombineTol > 0 THEN shortest - CombineTol ELSE 0

\* lines 12-24: the clip that is written, as its two tracks
combine_two_videos(v1, v2, aud) ==
    LET seg == concatenate_videoclips(v1, v2)
        fd == final_dur(seg.duration, aud.duration)
    IN  [ video |-> IF seg.duration > fd THEN subclip(seg, fd) ELSE seg,
          audio |-> audio_subclip(aud, fd) ]

InitCombine ==
    /\ NoSession
    /\ segments = <<>>
    /\ ordered = NotCalled
    /\ retry = NoRetry
    /\ adjust = NoAdjust
    /\ combine \in { [pc |-> "called", v1 |-> VideoFileClip(a),
                       v2 |-> VideoFileClip(b), aud |-> AudioFileClip(c),
                       seg |-> None] :
                       a \in 0..MaxDur, b \in 0..MaxDur, c \in 0..MaxDur }
    /\ NoPrompts

CombineCall ==
    /\ combine.pc = "called"
    /\ combine' = [combine EXCEPT
                     !.pc = "returned",
                     !.seg = combine_two_videos(combine.v1, combine.v2,
                                                combine.aud)]
    /\ UNCHANGED << sessionVars, orderVars, retry, adjust, promptVars,
                    fallback, laterVars >>

NextCombine == CombineCall

SpecCombine == InitCombine /\ [][NextCombine]_vars

(* ------------- the prompt stage of run_pipeline on its own ------------- *)
\* server.py 187-207 with generate_prompts_for_script (llm.py 61-196).
\* run_pipeline calls run in threads of one process, which share the
\* working directory that pushd changes; every path of the stage is
\* relative to it.
\*
\* A value of a prompt entry ("image1", "image2"): absent, a string
\* (not a mapping), or a mapping, with or without a "prompt" field.
Absent == [t |-> "absent", prompt |-> None]
NotMapping == [t |-> "str", prompt |-> None]
WithPrompt(p) == [t |-> "map", prompt |-> p]

\* the prompts of one segment; {} and a missing entry are [kind "empty"]
NoData == [kind |-> "empty", image1 |-> Absent, image2 |-> Absent]
Prompts(e1, e2) == [kind |-> "dict", image1 |-> e1, image2 |-> e2]

\* bool(image_prompts), line 199
Truthy(data) == data.kind # "empty"

\* what json.loads(raw) can be when the model answers with JSON
Answers ==
    { Prompts(WithPrompt("new"), WithPrompt("new")),
      Prompts(WithPrompt("new"), Absent),
      Prompts(NotMapping, WithPrompt("new")),
      NoData }

\* llm.py 169-174: the answer is not JSON; segment_text[:120] twice
Trimmed == Prompts(WithPrompt("trimmed"), WithPrompt("trimmed"))

\* seg_text, line 168
SegText == "seg_text"

\* allp.get(script_key, {}).get(seg_key, {}), line 196
Entry(all, script_key, segKey) ==
    IF script_key \in DOMAIN all /\ segKey \in DOMAIN all[script_key]
    THEN all[script_key][segKey]
    ELSE NoData

\* llm.py 188-189: setdefault(script_key, {}), then [script_key][segment_key]
SetEntry(all, script_key, segKey, data) ==
    LET mine == IF script_key \in DOMAIN all THEN all[script_key]
                ELSE EmptyDict
    IN  Update(all, [k \in {script_key} |->
                       Update(mine, [g \in {segKey} |-> data])])

\* a file as json.dump leaves it
FileOf(all) == [exists |-> TRUE, all |-> all]

\* image_prompts.get(name, {}).get("prompt", seg_text), lines 206-207:
\* a value that is not a mapping has no get (AttributeError)
Field(entry) ==
    IF entry.t = "str" THEN [raised |-> TRUE, value |-> None]
    ELSE IF entry.t = "map" /\ entry.prompt # None
    THEN [raised |-> FALSE, value |-> entry.prompt]
    ELSE [raised |-> FALSE, value |-> SegText]

\* the caches a session can hold when a run reaches a segment: none, or
\* what earlier runs (of this script, or of a script since replaced) left
OldPrompts == Prompts(WithPrompt("old"), WithPrompt("old"))

InitialCaches ==
    { NoFile,
      FileOf(SetEntry(EmptyDict, "script2", K1, OldPrompts)),
      FileOf(SetEntry(SetEntry(EmptyDict, "script2", K1, OldPrompts),
                      "script1", K1, OldPrompts)) }

InitPrompts ==
    /\ NoSession
    /\ segments = <<>>
    /\ ordered = NotCalled
    /\ retry = NoRetry
    /\ adjust = NoAdjust
    /\ combine = NoCombine
    /\ cwd = "root"
    /\ \E f \in InitialCaches :
         promptFiles = [dir \in {"root", "session"} |->
                          IF dir = "session" THEN f ELSE NoFile]
    /\ stages = EmptyBag
    /\ fallback = NoFallback
    /\ NoLater

\* a run_pipeline call arrives at line 187 for a segment
StageAt(segKey, held) ==
    [ pc |-> "pushd", script_key |-> "script1", seg_key |-> segKey,
      old |-> "", image_prompts |-> NoData, data |-> NoData,
      latest_all |-> EmptyDict,
      held |-> held,      \* the session's cache entry on arrival
      invoked |-> 0,      \* calls of the chat completion
      prompt1 |-> None, prompt2 |-> None ]

\* the stage is over: lines 209 onwards ("images") or the handler of
\* lines 290-293 ("failed")
StageOver(c, how, p1, p2) ==
    [ pc |-> how, script_key |-> c.script_key, seg_key |-> c.seg_key,
      old |-> "", image_prompts |-> c.image_prompts, data |-> NoData,
      latest_all |-> EmptyDict, held |-> c.held, invoked |-> c.invoked,
      prompt1 |-> p1, prompt2 |-> p2 ]

Stages == BagToSet(stages)

StageBecomes(c, c2) ==
    stages' = (stages (-) SetToBag({c})) (+) SetToBag({c2})

StageArrives ==
    /\ BagCardinality(stages) < MaxStages
    /\ \E segKey \in {K1, K2} :
         stages' = stages (+)
            SetToBag({StageAt(segKey,
                              Entry(promptFiles["session"].all,
                                    "script1", segKey))})
    /\ UNCHANGED << cwd, promptFiles >>
    /\ UNCHANGED << sessionVars, orderVars, retry, adjust, combine, fallback,
                    laterVars >>

\* line 187, pushd: old = os.getcwd(); os.chdir(session_dir)
StagePushd(c) ==
    /\ c.pc = "pushd"
    /\ cwd' = "session"
    /\ StageBecomes(c, [c EXCEPT !.pc = "lookup", !.old = cwd])
    /\ UNCHANGED promptFiles
    /\ UNCHANGED << sessionVars, orderVars, retry, adjust, combine, fallback,
                    laterVars >>

\* lines 190-199: the cache of the working directory is looked up
StageLookup(c) ==
    /\ c.pc = "lookup"
    /\ LET found == IF promptFiles[cwd].exists
                    THEN Entry(promptFiles[cwd].all, c.script_key, c.seg_key)
                    ELSE NoData
       IN  StageBecomes(c, [c EXCEPT
               !.pc = IF Truthy(found) THEN "popd" ELSE "generate",
               !.image_prompts = found])
    /\ UNCHANGED << cwd, promptFiles >>
    /\ UNCHANGED << sessionVars, orderVars, retry, adjust, combine, fallback,
                    laterVars >>

\* line 200 with llm.py 75-176: scripts.json of the working directory is
\* opened (only the session holds one), then the chat completion is called;
\* an exception is caught at line 202
StageGenerate(c) ==
    /\ c.pc = "generate"
    /\ IF cwd # "session"
       THEN StageBecomes(c, [c EXCEPT !.pc = "popd", !.image_prompts = NoData])
       ELSE \/ StageBecomes(c, [c EXCEPT !.pc = "popd",
                                         !.invoked = @ + 1,
                                         !.image_prompts = NoData])
            \/ \E data \in Answers \cup {Trimmed} :
                  StageBecomes(c, [c EXCEPT !.pc = "refresh",
                                           !.invoked = @ + 1,
                                           !.data = data])
    /\ UNCHANGED << cwd, promptFiles >>
    /\ UNCHANGED << sessionVars, orderVars, retry, adjust, combine, fallback,
                    laterVars >>

\* llm.py 179-189: the cache is read again and the new entry merged in
StageRefresh(c) ==
    /\ c.pc = "refresh"
    /\ LET latest_all == IF promptFiles[cwd].exists
                         THEN promptFiles[cwd].all ELSE EmptyDict
       IN  StageBecomes(c, [c EXCEPT
               !.pc = "save",
               !.latest_all = SetEntry(latest_all, c.script_key, c.seg_key,
                                       c.data)])
    /\ UNCHANGED << cwd, promptFiles >>
    /\ UNCHANGED << sessionVars, orderVars, retry, adjust, combine, fallback,
                    laterVars >>

\* llm.py 190-196 and line 201: the cache is written, the result returned
StageSave(c) ==
    /\ c.pc = "save"
    /\ promptFiles' = [promptFiles EXCEPT ![cwd] = FileOf(c.latest_all)]
    /\ StageBecomes(c, [c EXCEPT !.pc = "popd", !.image_prompts = c.data,
                                 !.data = NoData, !.latest_all = EmptyDict])
    /\ UNCHANGED cwd
    /\ UNCHANGED << sessionVars, orderVars, retry, adjust, combine, fallback,
                    laterVars >>

\* the end of the with block (os.chdir(old)), then lines 206-207
StagePopd(c) ==
    /\ c.pc = "popd"
    /\ cwd' = c.old
    /\ LET f1 == Field(c.image_prompts.image1)
           f2 == Field(c.image_prompts.image2)
       IN  IF f1.raised \/ f2.raised
           THEN StageBecomes(c, StageOver(c, "failed", None, None))
           ELSE StageBecomes(c, StageOver(c, "images", f1.value, f2.value))
    /\ UNCHANGED promptFiles
    /\ UNCHANGED << sessionVars, orderVars, retry, adjust, combine, fallback,
                    laterVars >>

prompt_stage(c) ==
    \/ StagePushd(c)
    \/ StageLookup(c)
    \/ StageGenerate(c)
    \/ StageRefresh(c)
    \/ StageSave(c)
    \/ StagePopd(c)

NextPrompts ==
    \/ StageArrives
    \/ \E c \in Stages : prompt_stage(c)

SpecPrompts == InitPrompts /\ [][NextPrompts]_vars

(* ---------- generate_image_with_fallback, as run_pipeline calls it ------ *)
\* server.py 215-217: in images mode the two images of a segment are made
\* one after the other, from the prompts the prompt stage produced.
PromptPool == {SegText, "old", "new", "trimmed"}

\* the call for image n begins (common.py line 62)
ImagesBegin(prompt1, prompt2) ==
    [ pc |-> "primary", prompts |-> <<prompt1, prompt2>>, n |-> 1,
      e |-> None,
      calls |-> <<>>,     \* the backend calls made, in order
      saved |-> <<>>,     \* the backend that wrote image n, per image
      raised |-> None ]

InitFallback ==
    /\ NoSession
    /\ segments = <<>>
    /\ ordered = NotCalled
    /\ retry = NoRetry
    /\ adjust = NoAdjust
    /\ combine = NoCombine
    /\ cwd = "root"
    /\ promptFiles = [dir \in {"root", "session"} |-> NoFile]
    /\ stages = EmptyBag
    /\ fallback \in { ImagesBegin(p1, p2) : p1 \in PromptPool, p2 \in PromptPool }
    /\ NoLater

BackendCall(backend, n, prompt, outcome) ==
    [backend |-> backend, image |-> n, prompt |-> prompt, outcome |-> outcome]

\* generate_image_with_fallback has returned for image n
ImageReturned(f, backend) ==
    [f EXCEPT !.pc = IF f.n < 2 THEN "primary" ELSE "done",
              !.n = IF f.n < 2 THEN f.n + 1 ELSE f.n,
              !.e = None,
              !.saved = Append(@, backend)]

\* a variant that tries the secondary backend whatever the primary did
FallbackAlways(primary_raised) == TRUE

\* line 64: the except clause is entered when the primary backend raised
FallbackNeeded(primary_raised) == primary_raised

\* lines 62-64: hf_generate_and_save_image(prompt, save_path)
ImagePrimary ==
    /\ fallback.pc = "primary"
    /\ \/ LET f == [fallback EXCEPT
                      !.calls = Append(@, BackendCall("hf", fallback.n,
                                   fallback.prompts[fallback.n], "ok"))]
          IN  fallback' = IF FallbackNeeded(FALSE)
                          THEN [f EXCEPT !.pc = "secondary"]
                          ELSE ImageReturned(f, "hf")
       \/ \E e \in Messages :
            LET f == [fallback EXCEPT
                        !.e = e,
                        !.calls = Append(@, BackendCall("hf", fallback.n,
                                     fallback.prompts[fallback.n], e))]
            IN  fallback' = IF FallbackNeeded(TRUE)
                            THEN [f EXCEPT !.pc = "secondary"]
                            ELSE ImageReturned(f, "hf")
    /\ UNCHANGED << sessionVars, orderVars, retry, adjust, combine,
                    promptVars, laterVars >>

\* lines 66-71: generate_image_from_prompt(prompt=prompt, save_path=save_path);
\* if it raises too, RuntimeError with both errors in its message
ImageSecondary ==
    /\ fallback.pc = "secondary"
    /\ \/ fallback' = ImageReturned(
                          [fallback EXCEPT
                             !.calls = Append(@, BackendCall("local",
                                fallback.n, fallback.prompts[fallback.n],
                                "ok"))],
                          "local")
       \/ \E e2 \in Messages :
            fallback' = [fallback EXCEPT
                           !.pc = "raised",
                           !.calls = Append(@, BackendCall("local",
                              fallback.n, fallback.prompts[fallback.n], e2)),
                           !.raised = [hf_error |-> fallback.e,
                                       fallback_error |-> e2]]
    /\ UNCHANGED << sessionVars, orderVars, retry, adjust, combine,
                    promptVars, laterVars >>

NextFallback == ImagePrimary \/ ImageSecondary

SpecFallback == InitFallback /\ [][NextFallback]_vars

(* --------- two sessions running in one process (server.py 187-241) ----- *)
\* One run_pipeline thread per session, each working on a segment.  A
\* directory is a path below the server's start directory: <<>> is that
\* directory, <<s>> the directory of session s, <<s, "segment">> the
\* directory of its segment.  Every file the threads name by a relative
\* path is found in cwd, the working directory of the process.
Sessions == {"A", "B"}
RootDir == <<>>
SessionDirOf(s) == <<s>>
SegmentDirOf(s) == <<s, "segment">>

NoIdleExcept(v) ==
    /\ v = "crossRuns" \/ crossRuns = NoCrossRuns
    /\ v = "created" \/ created = NoneCreated
    /\ v = "subtitle" \/ subtitle = NoSubtitle
    /\ v = "slideshow" \/ slideshow = NoSlideshow
    /\ v = "segrun" \/ segrun = NoSegrun
    /\ v = "context" \/ context = NoContext
    /\ v = "artifact" \/ artifact = NoArtifact

\* a thread arrives at line 187
ThreadAt187(mode) == [pc |-> "pushd_session", mode |-> mode, old |-> RootDir]

InitCross ==
    /\ NoSession
    /\ segments = <<>>
    /\ ordered = NotCalled
    /\ retry = NoRetry
    /\ adjust = NoAdjust
    /\ combine = NoCombine
    /\ cwd = RootDir
    /\ promptFiles = [dir \in {"root", "session"} |-> NoFile]
    /\ stages = EmptyBag
    /\ fallback = NoFallback
    /\ NoIdleExcept("crossRuns")
    /\ \E modes \in [Sessions -> {"videos", "images"}] :
         crossRuns = [ pc |-> "running",
                       threads |-> [s \in Sessions |-> ThreadAt187(modes[s])],
                       accesses |-> {} ]

\* a file named by a relative path is opened by the thread of session s
Access(s, file) == [by |-> s, file |-> file, dir |-> cwd]

CrossStep(s, thread, new_accesses) ==
    /\ crossRuns' = [crossRuns EXCEPT
                       !.threads[s] = thread,
                       !.accesses = @ \cup new_accesses]
    /\ UNCHANGED << sessionVars, orderVars, retry, adjust, combine,
                    promptFiles, stages, fallback,
                    created, subtitle, slideshow, lastVars >>

\* common.py 23-25 at server.py 187: pushd(session_dir)
PushdSession(s) ==
    LET th == crossRuns.threads[s]
    IN  /\ th.pc = "pushd_session"
        /\ cwd' = SessionDirOf(s)
        /\ CrossStep(s, [th EXCEPT !.pc = "lookup", !.old = cwd], {})

\* lines 191-199: image_prompts/ALL_PROMPTS.json is looked up; the
\* prompts of the segment are there or not
PromptLookup(s) ==
    LET th == crossRuns.threads[s]
    IN  /\ th.pc = "lookup"
        /\ \E found \in BOOLEAN :
             CrossStep(s, [th EXCEPT !.pc = IF found THEN "popd_session"
                                            ELSE "generate"],
                       {Access(s, "ALL_PROMPTS.json")})
        /\ UNCHANGED cwd

\* line 200 with llm.py 75, 101-105 and 179-191: scripts.json is read,
\* the cache is read and written
PromptGenerate(s) ==
    LET th == crossRuns.threads[s]
    IN  /\ th.pc = "generate"
        /\ CrossStep(s, [th EXCEPT !.pc = "popd_session"],
                     {Access(s, "scripts.json"),
                      Access(s, "ALL_PROMPTS.json")})
        /\ UNCHANGED cwd

\* common.py 28-29: the end of the with block of line 187
PopdSession(s) ==
    LET th == crossRuns.threads[s]
    IN  /\ th.pc = "popd_session"
        /\ cwd' = th.old
        /\ CrossStep(s, [th EXCEPT !.pc = IF th.mode = "videos"
                                         THEN "pushd_segment" ELSE "done",
                                   !.old = RootDir], {})

\* line 224: pushd(seg_dir)
PushdSegment(s) ==
    LET th == crossRuns.threads[s]
    IN  /\ th.pc = "pushd_segment"
        /\ cwd' = SegmentDirOf(s)
        /\ CrossStep(s, [th EXCEPT !.pc = "videos", !.old = cwd], {})

\* lines 225-241: the image is read by its base name and the video is
\* written under the name the generator returns
SegmentVideos(s) ==
    LET th == crossRuns.threads[s]
    IN  /\ th.pc = "videos"
        /\ CrossStep(s, [th EXCEPT !.pc = "popd_segment"],
                     {Access(s, "image.png"), Access(s, "video.mp4")})
        /\ UNCHANGED cwd

\* the end of the with block of line 224
PopdSegment(s) ==
    LET th == crossRuns.threads[s]
    IN  /\ th.pc = "popd_segment"
        /\ cwd' = th.old
        /\ CrossStep(s, [th EXCEPT !.pc = "done", !.old = RootDir], {})

NextCross ==
    \E s \in Sessions :
       \/ PushdSession(s)
       \/ PromptLookup(s)
       \/ PromptGenerate(s)
       \/ PopdSession(s)
       \/ PushdSegment(s)
       \/ SegmentVideos(s)
       \/ PopdSegment(s)

SpecCross == InitCross /\ [][NextCross]_vars

(* ------------- create_session on its own (server.py 75-94) ------------- *)
\* An idea is a sequence of one-character strings.
Lower(c) == IF c = "C" THEN "c" ELSE c

\* the characters [^a-zA-Z0-9\-_. ] removes
Removed(c) == c = "!"
Kept(c) == ~Removed(c)

RECURSIVE LStrip(_)
LStrip(s) == IF s # <<>> /\ s[1] = " " THEN LStrip(Tail(s)) ELSE s

RECURSIVE RStrip(_)
RStrip(s) ==
    IF s # <<>> /\ s[Len(s)] = " "
    THEN RStrip(SubSeq(s, 1, Len(s) - 1)) ELSE s

\* re.sub(r"\s+", "-", slug)
RECURSIVE Dashed(_)
Dashed(s) ==
    IF s = <<>> THEN <<>>
    ELSE IF s[1] = " " THEN <<"-">> \o Dashed(LStrip(s))
    ELSE <<s[1]>> \o Dashed(Tail(s))

LowerAll(s) == [k \in DOMAIN s |-> Lower(s[k])]

max_len == 40

\* main.py 31-36; fresh stands for str(uuid.uuid4())[:8]
\* lines 32-33: the slug before the test for emptiness
Slug(text) == Dashed(LowerAll(RStrip(LStrip(SelectSeq(text, Kept)))))

slugify(text, fresh) ==
    LET slug == Slug(text)
        named == IF slug = <<>> THEN fresh ELSE slug
    IN  SubSeq(named, 1, IF Len(named) < max_len THEN Len(named) ELSE max_len)

\* "Cat", "cat!", "a  b", "a-b", "!"
Ideas == { <<"C", "a", "t">>, <<"c", "a", "t", "!">>,
           <<"a", " ", " ", "b">>, <<"a", "-", "b">>, <<"!">> }

\* the n-th value uuid4 gives
Uuid(n) == <<"uuid", n>>

InitCreate ==
    /\ NoSession
    /\ segments = <<>>
    /\ ordered = NotCalled
    /\ retry = NoRetry
    /\ adjust = NoAdjust
    /\ combine = NoCombine
    /\ cwd = "root"
    /\ promptFiles = [dir \in {"root", "session"} |-> NoFile]
    /\ stages = EmptyBag
    /\ fallback = NoFallback
    /\ NoIdleExcept("created")
    /\ created = [ pc |-> "serving", clock |-> 0, uuids |-> 0,
                   returned |-> <<>>, dirs |-> EmptyDict ]

CreateUnchanged ==
    UNCHANGED << sessionVars, orderVars, retry, adjust, combine, promptVars,
                 fallback, crossRuns, subtitle, slideshow, lastVars >>

\* datetime.now() moves on by a second
ClockTick ==
    /\ created.clock < MaxSeconds
    /\ created' = [created EXCEPT !.clock = @ + 1]
    /\ CreateUnchanged

\* lines 75-94: the name is the time to the second and the slug; the
\* directory may exist already (exist_ok=True); idea.txt and status.json
\* are written whether or not they exist
CreateCall ==
    /\ Len(created.returned) < MaxCreates
    /\ \E idea \in Ideas :
         LET ts == created.clock
             drawn == Slug(idea) = <<>>
             session_name == <<ts, slugify(idea, Uuid(created.uuids))>>
             files == [ idea |-> idea,
                        status |-> [session_id |-> session_name,
                                    idea |-> idea, state |-> "created"] ]
         IN  created' = [created EXCEPT
                           !.uuids = IF drawn THEN @ + 1 ELSE @,
                           !.returned = Append(@, session_name),
                           !.dirs = Update(@, [d \in {session_name} |-> files])]
    /\ CreateUnchanged

NextCreate == ClockTick \/ CreateCall

SpecCreate == InitCreate /\ [][NextCreate]_vars

(* ------- burn_subtitles_from_items on its own (subtitles.py 49-99) ------ *)
\* Times are integers, in milliseconds.
eps == 1
\* the minimal visible duration, 0.1 s
MinVisible == 100

Min2(a, b) == IF a < b THEN a ELSE b
Max2(a, b) == IF a > b THEN a ELSE b

\* the times the model draws from: the steps of 50 ms and their
\* neighbours
TimePool == {t \in 0..(50 * MaxSubtitleSteps) : t % 50 \in {0, 1, 49}}

\* lines 53-58 for one item: the clamped (s, e)
clamp_item(start, end, max_duration) ==
    LET s == Max2(0, Min2(start, max_duration - eps))
        e == Max2(0, Min2(end, max_duration - eps))
    IN  IF e <= s
        THEN <<s, Min2(s + MinVisible, max_duration - eps)>>
        ELSE <<s, e>>

\* line 85: dur = max(end - start, 0.1)
shown_duration(s, e) == Max2(e - s, MinVisible)

InitSubtitle ==
    /\ NoSession
    /\ segments = <<>>
    /\ ordered = NotCalled
    /\ retry = NoRetry
    /\ adjust = NoAdjust
    /\ combine = NoCombine
    /\ cwd = "root"
    /\ promptFiles = [dir \in {"root", "session"} |-> NoFile]
    /\ stages = EmptyBag
    /\ fallback = NoFallback
    /\ NoIdleExcept("subtitle")
    /\ \E start \in TimePool, end \in TimePool, D \in TimePool \ {0} :
         subtitle = [ pc |-> "called", start |-> start, end |-> end,
                      duration |-> D, clamped |-> <<>>,
                      set_start |-> 0, set_duration |-> 0 ]

\* lines 82-98: the item is clamped to the duration of the video, then
\* the text clip gets its start and its duration
BurnCall ==
    /\ subtitle.pc = "called"
    /\ LET c == clamp_item(subtitle.start, subtitle.end, subtitle.duration)
       IN  subtitle' = [subtitle EXCEPT
                          !.pc = "rendered",
                          !.clamped = c,
                          !.set_start = c[1],
                          !.set_duration = shown_duration(c[1], c[2])]
    /\ UNCHANGED << sessionVars, orderVars, retry, adjust, combine,
                    promptVars, fallback, crossRuns, created, slideshow,
                    lastVars >>

NextSubtitle == BurnCall

SpecSubtitle == InitSubtitle /\ [][NextSubtitle]_vars

(* --- build_segment_from_images on its own (images_slideshow.py 17-43) --- *)
\* Durations are integers, in milliseconds; the quotient total_dur / n is
\* rounded down to a millisecond.
MinClip == 100

\* the narrations the model draws from: up to 0.15 s for each image
Narrations == 0..(150 * MaxImages)

\* line 22: base = total_dur / n
base_of(total_dur, n) == total_dur \div n

\* line 34: the share of image i (from 1) before the floor of line 35
share(total_dur, n, i) ==
    IF i < n THEN base_of(total_dur, n)
    ELSE total_dur - base_of(total_dur, n) * (n - 1)

\* lines 32-37: the duration of the clip of each image
clip_durations(total_dur, n) ==
    [i \in 1..n |-> Max2(share(total_dur, n, i), MinClip)]

InitSlideshow ==
    /\ NoSession
    /\ segments = <<>>
    /\ ordered = NotCalled
    /\ retry = NoRetry
    /\ adjust = NoAdjust
    /\ combine = NoCombine
    /\ cwd = "root"
    /\ promptFiles = [dir \in {"root", "session"} |-> NoFile]
    /\ stages = EmptyBag
    /\ fallback = NoFallback
    /\ NoIdleExcept("slideshow")
    /\ \E n \in 1..MaxImages, total_dur \in Narrations :
         slideshow = [ pc |-> "called", n |-> n, total_dur |-> total_dur,
                       durations |-> <<>> ]

\* lines 17-39: the clips handed to concatenate_videoclips
BuildCall ==
    /\ slideshow.pc = "called"
    /\ slideshow' = [slideshow EXCEPT
                       !.pc = "built",
                       !.durations = clip_durations(slideshow.total_dur,
                                                    slideshow.n)]
    /\ UNCHANGED << sessionVars, orderVars, retry, adjust, combine,
                    promptVars, fallback, crossRuns, created, subtitle,
                    lastVars >>

NextSlideshow == BuildCall

SpecSlideshow == InitSlideshow /\ [][NextSlideshow]_vars

(* -- one segment, in run_pipeline (server.py 181-253) and in main() ------ *)
(*    (main.py 240-310)                                                     *)
\* The same segment is processed by the loop body of run_pipeline ("api")
\* and by the loop body of main() ("cli"), with the same mode, the same
\* prompt cache and the same collaborators: a collaborator call either
\* returns or raises, the same way for both.
Runners == {"api", "cli"}

\* the two image backends, as generate_image_with_fallback names them
\* (common.py 55-66): the one it tries first, and its fallback
PrimaryBackend == "hf_generate_and_save_image"
SecondaryBackend == "generate_image_from_prompt"

\* a collaborator call: the function, and the image or video it is for
Call(f, n) == [f |-> f, n |-> n]

CollaboratorCalls ==
    { Call("run_tts", 0), Call("generate_prompts_for_script", 0),
      Call("audio_duration_seconds", 0), Call("combine_two_videos", 0),
      Call("build_segment_from_images", 0) }
    \cup { Call(f, n) : f \in { PrimaryBackend, SecondaryBackend,
                                "generate_video_with_retries",
                                "adjust_video_to_duration" },
                        n \in {1, 2} }

RECURSIVE SubsetsUpTo(_, _)
SubsetsUpTo(S, k) ==
    IF k = 0 THEN {{}}
    ELSE LET smaller == SubsetsUpTo(S, k - 1)
         IN  smaller \cup {A \cup {x} : A \in smaller, x \in S}

\* a line of the record of a runner: the stage, the call made in it and
\* the prompt handed to it
Made(stage, call, prompt) == [stage |-> stage, call |-> call, prompt |-> prompt]

RunnerAtTop == [pc |-> "narrate", calls |-> <<>>, prompt |-> "", outcome |-> "running"]

InitSegment ==
    /\ NoSession
    /\ segments = <<>>
    /\ ordered = NotCalled
    /\ retry = NoRetry
    /\ adjust = NoAdjust
    /\ combine = NoCombine
    /\ cwd = "root"
    /\ promptFiles = [dir \in {"root", "session"} |-> NoFile]
    /\ stages = EmptyBag
    /\ fallback = NoFallback
    /\ NoIdleExcept("segrun")
    /\ \E mode \in {"videos", "images"}, cached \in BOOLEAN,
          fails \in SubsetsUpTo(CollaboratorCalls, MaxFailures) :
         segrun = [ pc |-> "running", mode |-> mode, cached |-> cached,
                    fails |-> fails,
                    runner |-> [who \in Runners |-> RunnerAtTop] ]

\* a variant that leaves out the second adjust_video_to_duration
StageAfterUnreconciled(mode, stage) ==
    CASE stage = "narrate" -> "prompts"
      [] stage = "prompts" -> "image1"
      [] stage = "image1" -> "image2"
      [] stage = "image2" -> IF mode = "videos" THEN "duration" ELSE "combine"
      [] stage = "duration" -> "synthesize1"
      [] stage = "synthesize1" -> "reconcile1"
      [] stage = "reconcile1" -> "synthesize2"
      [] stage = "synthesize2" -> "combine"
      [] OTHER -> "done"

\* the statement that follows a stage, in both loop bodies
StageAfter(mode, stage) ==
    CASE stage = "narrate" -> "prompts"
      [] stage = "prompts" -> "image1"
      [] stage = "image1" -> "image2"
      [] stage = "image2" -> IF mode = "videos" THEN "duration" ELSE "combine"
      [] stage = "duration" -> "synthesize1"
      [] stage = "synthesize1" -> "reconcile1"
      [] stage = "reconcile1" -> "synthesize2"
      [] stage = "synthesize2" -> "reconcile2"
      [] stage = "reconcile2" -> "combine"
      [] OTHER -> "done"

Raises(call) == call \in segrun.fails

\* the runner goes on to the next stage, or leaves the loop with the
\* exception
GoesOn(r, made) ==
    LET next == StageAfter(segrun.mode, r.pc)
    IN  [r EXCEPT !.calls = @ \o made,
                  !.pc = next,
                  !.outcome = IF next = "done" THEN "finished" ELSE @]

Aborts(r, made) ==
    [r EXCEPT !.calls = @ \o made, !.pc = "done", !.outcome = "aborted"]

\* a stage that makes one call and lets its exception through
Through(r, stage, call) ==
    LET made == <<Made(stage, call, r.prompt)>>
    IN  IF Raises(call) THEN Aborts(r, made) ELSE GoesOn(r, made)

SegmentStep(who, r) ==
    /\ segrun' = [segrun EXCEPT !.runner[who] = r]
    /\ UNCHANGED << sessionVars, orderVars, retry, adjust, combine,
                    promptVars, fallback, crossRuns, created, subtitle,
                    slideshow, context, artifact >>

\* server.py 181-183, main.py 240-243: run_tts(seg_text, voice, audio_path)
Narrate(who) ==
    LET r == segrun.runner[who]
    IN  /\ r.pc = "narrate"
        /\ SegmentStep(who, Through(r, "narrate", Call("run_tts", 0)))

\* a variant in which both loops catch the exception of the generator
PromptFailureAbsorbedByBoth(who) == TRUE

\* server.py 188-204 has a try/except around the prompt stage, main.py
\* 245-258 has none
PromptFailureAbsorbed(who) == who = "api"

\* server.py 187-207, main.py 245-261: the cached prompts of the segment,
\* else generate_prompts_for_script(script_key, segment=seg_key)
ObtainPrompts(who) ==
    LET r == segrun.runner[who]
        call == Call("generate_prompts_for_script", 0)
    IN  /\ r.pc = "prompts"
        /\ SegmentStep(who,
              IF segrun.cached
              THEN GoesOn([r EXCEPT !.prompt = "cached"],
                          <<Made("prompts", Call("ALL_PROMPTS.json", 0), "")>>)
              ELSE IF ~Raises(call)
              THEN GoesOn([r EXCEPT !.prompt = "generated"],
                          <<Made("prompts", call, "")>>)
              ELSE IF PromptFailureAbsorbed(who)
              THEN GoesOn([r EXCEPT !.prompt = "seg_text"],
                          <<Made("prompts", call, "")>>)
              ELSE Aborts(r, <<Made("prompts", call, "")>>))

\* a variant that uses generate_image_with_fallback in both modes
WithFallbackAlways(mode) == TRUE

\* server.py 212-217, main.py 268-274: generate_image_with_fallback is
\* called in mode images only
WithFallback(mode) == mode # "videos"

ImageNumber(pc) == IF pc = "image1" THEN 1 ELSE 2

\* server.py 209-217, main.py 263-274, with common.py 62-71
GenerateImage(who) ==
    LET r == segrun.runner[who]
        n == ImageNumber(r.pc)
        first == Made("image", Call(PrimaryBackend, n), r.prompt)
        second == Made("image", Call(SecondaryBackend, n), r.prompt)
    IN  /\ r.pc \in {"image1", "image2"}
        /\ SegmentStep(who,
              IF ~WithFallback(segrun.mode)
              THEN Through(r, "image", Call(SecondaryBackend, n))
              ELSE IF ~Raises(first.call) THEN GoesOn(r, <<first>>)
              ELSE IF ~Raises(second.call) THEN GoesOn(r, <<first, second>>)
              ELSE Aborts(r, <<first, second>>))

\* server.py 221-222, main.py 278-279: dur = audio_duration_seconds(audio_path)
MeasureNarration(who) ==
    LET r == segrun.runner[who]
    IN  /\ r.pc = "duration"
        /\ SegmentStep(who, Through(r, "duration",
                                    Call("audio_duration_seconds", 0)))

VideoNumber(pc) == IF pc \in {"synthesize1", "reconcile1"} THEN 1 ELSE 2

\* server.py 225-230 and 234-239, main.py 285-291 and 295-301
SynthesizeVideo(who) ==
    LET r == segrun.runner[who]
    IN  /\ r.pc \in {"synthesize1", "synthesize2"}
        /\ SegmentStep(who, Through(r, "synthesize",
               Call("generate_video_with_retries", VideoNumber(r.pc))))

\* server.py 232 and 241, main.py 293 and 303
ReconcileDuration(who) ==
    LET r == segrun.runner[who]
    IN  /\ r.pc \in {"reconcile1", "reconcile2"}
        /\ SegmentStep(who, Through(r, "reconcile",
               Call("adjust_video_to_duration", VideoNumber(r.pc))))

\* server.py 243-253, main.py 307-323: combine_two_videos in mode videos,
\* build_segment_from_images in mode images
CombineSegment(who) ==
    LET r == segrun.runner[who]
    IN  /\ r.pc = "combine"
        /\ SegmentStep(who, Through(r, "combine",
               IF segrun.mode = "videos"
               THEN Call("combine_two_videos", 0)
               ELSE Call("build_segment_from_images", 0)))

NextSegment ==
    \E who \in Runners :
       \/ Narrate(who)
       \/ ObtainPrompts(who)
       \/ GenerateImage(who)
       \/ MeasureNarration(who)
       \/ SynthesizeVideo(who)
       \/ ReconcileDuration(who)
       \/ CombineSegment(who)

SpecSegment == InitSegment /\ [][NextSegment]_vars

(* ---- the continuity context of generate_prompts_for_script ------------ *)
(*      (llm.py 85-132)                                                     *)
\* seg_index of llm.py 85-87: int(re.search(r"(\d+)", k).group(1)), else
\* 10**9
seg_index(k) ==
    LET p == FirstDigitFrom(k, 1)
    IN  IF p = 0 THEN 1000000000 ELSE DecimalValue(k, p, RunEnd(k, p))

\* the keys of a script, in insertion order: no key twice
KeyLists ==
    { l \in ListsUpTo(KeyPool, MaxList) :
        \A j, k \in DOMAIN l : j # k => l[j] # l[k] }

Range(l) == {l[k] : k \in DOMAIN l}

\* lines 126-132: the keys of prev_prompts for segment_key, given the keys
\* of the script and the segments that have prompts in ALL_PROMPTS.json
prev_prompts(keys, existing_for_script, segment_key) ==
    { sk \in Range(keys) :
        /\ seg_index(sk) < seg_index(segment_key)
        /\ sk \in existing_for_script }

InitContext ==
    /\ NoSession
    /\ segments = <<>>
    /\ ordered = NotCalled
    /\ retry = NoRetry
    /\ adjust = NoAdjust
    /\ combine = NoCombine
    /\ cwd = "root"
    /\ promptFiles = [dir \in {"root", "session"} |-> NoFile]
    /\ stages = EmptyBag
    /\ fallback = NoFallback
    /\ NoIdleExcept("context")
    /\ \E keys \in KeyLists \ {<<>>} :
         \E segment \in Range(keys), existing \in SUBSET Range(keys) :
            context = [ pc |-> "called", keys |-> keys, segment |-> segment,
                        existing |-> existing, prev |-> {} ]

\* generate_prompts_for_script(script_key, segment=segment) up to the
\* payload of the chat completion
ContextCall ==
    /\ context.pc = "called"
    /\ context' = [context EXCEPT
                     !.pc = "sent",
                     !.prev = prev_prompts(context.keys, context.existing,
                                           context.segment)]
    /\ UNCHANGED << sessionVars, orderVars, retry, adjust, combine,
                    promptVars, fallback, crossRuns, created, subtitle,
                    slideshow, segrun, artifact >>

NextContext == ContextCall

SpecContext == InitContext /\ [][NextContext]_vars

(* ------------- api_get_artifact on its own (server.py 467-477) ---------- *)
\* A path is a sequence of components, a component a sequence of
\* one-character strings; the path as a string has "/" before each
\* component.
DotDot == <<".", ".">>
TopDir == <<"t">>
SessionsDir == <<"d">>
IdeaTxt == <<"i">>
EnvFile == <<"e">>

\* SESSIONS_ROOT = os.path.join(os.getcwd(), "sessions")
SESSIONS_ROOT == <<TopDir, SessionsDir>>

\* the sessions on disk: "s1" and "s10"
SessionNames == {K1, K10}

\* the files on disk: idea.txt of each session, and a file next to the
\* sessions directory
FilesOnDisk ==
    { SESSIONS_ROOT \o <<name, IdeaTxt>> : name \in SessionNames }
    \cup { <<TopDir, EnvFile>> }

RECURSIVE PathString(_)
PathString(path) ==
    IF path = <<>> THEN <<>>
    ELSE <<"/">> \o path[1] \o PathString(Tail(path))

\* os.path.normpath of an absolute path: ".." drops the component before
\* it, and is dropped at the root
RECURSIVE NormFrom(_, _)
NormFrom(done, rest) ==
    IF rest = <<>> THEN done
    ELSE IF rest[1] = DotDot
         THEN NormFrom(IF done = <<>> THEN done
                       ELSE SubSeq(done, 1, Len(done) - 1), Tail(rest))
    ELSE NormFrom(Append(done, rest[1]), Tail(rest))

normpath(path) == NormFrom(<<>>, path)

\* line 474: requested.startswith(os.path.abspath(session_dir)), a
\* comparison of strings
startswith(path, dir) ==
    LET a == PathString(path)
        b == PathString(dir)
    IN  /\ Len(a) >= Len(b)
        /\ SubSeq(a, 1, Len(b)) = b

Relpaths == ListsUpTo({DotDot, K1, K10, IdeaTxt, EnvFile}, MaxRelpath)

InitArtifact ==
    /\ NoSession
    /\ segments = <<>>
    /\ ordered = NotCalled
    /\ retry = NoRetry
    /\ adjust = NoAdjust
    /\ combine = NoCombine
    /\ cwd = "root"
    /\ promptFiles = [dir \in {"root", "session"} |-> NoFile]
    /\ stages = EmptyBag
    /\ fallback = NoFallback
    /\ NoIdleExcept("artifact")
    /\ \E session_id \in SessionNames, relpath \in Relpaths :
         artifact = [ pc |-> "called", session_id |-> session_id,
                      relpath |-> relpath, requested |-> <<>>,
                      response |-> "" ]

\* lines 467-477 and the FileResponse that follows
ArtifactRequest ==
    /\ artifact.pc = "called"
    /\ LET session_dir == SESSIONS_ROOT \o <<artifact.session_id>>
           requested == normpath(session_dir \o artifact.relpath)
       IN  artifact' = [artifact EXCEPT
                          !.pc = "answered",
                          !.requested = requested,
                          !.response =
                             IF ~startswith(requested, session_dir) THEN "400"
                             ELSE IF requested \notin FilesOnDisk THEN "404"
                             ELSE "file"]
    /\ UNCHANGED << sessionVars, orderVars, retry, adjust, combine,
                    promptVars, fallback, crossRuns, created, subtitle,
                    slideshow, segrun, context >>

NextArtifact == ArtifactRequest

SpecArtifact == InitArtifact /\ [][NextArtifact]_vars

(* ======================= properties of the claims ===================== *)
StateOf(d) == Get(d, "state")

HasError(d) == "error" \in DOMAIN d /\ d.error # None

HasArtifacts(d) == "artifacts" \in DOMAIN d /\ DOMAIN d.artifacts # {}

HasProgress(d) == "progress" \in DOMAIN d

\* position of a state in created -> scripts_ready -> queued -> running ->
\* {completed | failed}; no snapshot yet: -1
StateRank(d) ==
    LET st == StateOf(d)
    IN  CASE st = "created" -> 0
          [] st = "scripts_ready" -> 1
          [] st = "queued" -> 2
          [] st = "running" -> 3
          [] st \in {"completed", "failed"} -> 4
          [] OTHER -> -1

\* the step starts a run: a scheduled task leaves "scheduled"
ScheduledCount(b) ==
    BagCardinality([t \in {x \in BagToSet(b) : x.pc = "scheduled"} |-> b[t]])

RunStarts == ScheduledCount(tasks') < ScheduledCount(tasks)

\* the step is the last one of task t, which ends as `how`
EndsAs(t, how) ==
    /\ t.pc # "done"
    /\ \E e \in Messages \cup {None} : Becomes(t, Ended(how, e))

(* ---------------------------------------------------------------------- *)
\* C1: the persisted state of the session only advances along created ->
\* scripts_ready -> queued -> running -> {completed | failed}; it never
\* moves to an earlier state, except that a re-run starts (queued or
\* running) from completed or failed.
C1_StateOnlyAdvances ==
    [][ \/ StateRank(statusFile') >= StateRank(statusFile)
        \/ /\ StateOf(statusFile) \in {"completed", "failed"}
           /\ StateOf(statusFile') \in {"queued", "running"} ]_vars

(* ---------------------------------------------------------------------- *)
\* C2: when a stage of run_pipeline raises, the snapshot the run persists
\* last is failed with error set to the message of the exception, and the
\* run has ended: a task that has ended never takes another step.
C2_FailureIsRecordedAndFinal ==
    [][ \A t \in Tasks :
          /\ \A e \in Messages :
               t.pc # "done" /\ Becomes(t, Ended("failed", e)) =>
                  /\ StateOf(statusFile') = "failed"
                  /\ Get(statusFile', "error") = e
          /\ t.pc = "done" => CopiesIn(t, tasks') >= CopiesIn(t, tasks) ]_vars

\* a run has failed in a stage and status.json holds its last snapshot
C2_Witness ==
    \E t \in Tasks :
       /\ t.outcome = "failed"
       /\ StateOf(statusFile) = "failed"
       /\ statusFile.error = t.raised
       /\ statusFile.progress.completed < statusFile.progress.total_segments

(* ---------------------------------------------------------------------- *)
\* C3: a session whose run request was accepted comes to completed or
\* failed.  Stated on finite runs: while the persisted state is queued, a
\* task of the session is still scheduled or running (when the last task
\* has ended, nothing is left that could move the state on).
C3_QueuedRunIsAlive ==
    StateOf(statusFile) = "queued" => \E t \in Tasks : t.pc # "done"

(* ---------------------------------------------------------------------- *)
\* C4: the first snapshot a run persists with state running has
\* progress.completed = 0, no error and no artifacts, also when an earlier
\* run of the session ended in completed or failed.
JustStarted(t) == t.pc \in {"segment", "assemble"} /\ t.i = 1

C4_RerunStartsClean ==
    \A t \in Tasks :
       JustStarted(t) =>
          /\ StateOf(t.status) = "running"
          /\ t.status.progress.completed = 0
          /\ ~HasError(t.status)
          /\ ~HasArtifacts(t.status)

(* ---------------------------------------------------------------------- *)
\* C5: in every persisted snapshot, error is non-null only if the state is
\* failed.
C5_ErrorOnlyWhenFailed ==
    HasError(statusFile) => StateOf(statusFile) = "failed"

(* ---------------------------------------------------------------------- *)
\* C6: in every persisted snapshot, artifacts is non-empty only if the
\* state is completed.
C6_ArtifactsOnlyWhenCompleted ==
    HasArtifacts(statusFile) => StateOf(statusFile) = "completed"

(* ---------------------------------------------------------------------- *)
\* C7: the persisted progress.completed never decreases, except in the
\* step that starts a new run, whatever the requests that arrive meanwhile.
CompletedOf(d) == IF HasProgress(d) THEN d.progress.completed ELSE 0

C7_CompletedNeverDecreases ==
    [][ CompletedOf(statusFile') >= CompletedOf(statusFile) \/ RunStarts ]_vars

(* ---------------------------------------------------------------------- *)
\* C8 as claimed: in the last snapshot of a run, progress.completed equals
\* total_segments if and only if the run ends completed.
AllCompleted(d) == d.progress.completed = d.progress.total_segments

C8_CompletedIffAllSegments ==
    [][ \A t \in Tasks :
          /\ EndsAs(t, "completed") => AllCompleted(statusFile')
          /\ EndsAs(t, "failed") => ~AllCompleted(statusFile') ]_vars

\* C8 as amended: a run that ends completed has completed = total_segments;
\* a run that fails in a stage of a segment has completed < total_segments;
\* a run that fails in concatenation or subtitling, after its last segment,
\* has completed = total_segments.
C8_CompletedVsOutcome ==
    [][ \A t \in Tasks :
          /\ EndsAs(t, "completed") => AllCompleted(statusFile')
          /\ EndsAs(t, "failed") /\ t.pc = "stages" =>
                statusFile'.progress.completed
                   < statusFile'.progress.total_segments
          /\ EndsAs(t, "failed") /\ t.pc = "assemble" =>
                AllCompleted(statusFile') ]_vars

\* a run over at least one segment failed in assembly: the snapshot is
\* failed with every segment completed
C8_Witness ==
    /\ StateOf(statusFile) = "failed"
    /\ AllCompleted(statusFile)
    /\ statusFile.progress.total_segments > 0
    /\ \E t \in Tasks : t.outcome = "failed"

(* ---------------------------------------------------------------------- *)
\* the first embedded integer of a key, read off the key: the digits from
\* the first digit up to the next non-digit, in base 10; 0 without digits
RECURSIVE Pow10(_)
Pow10(n) == IF n = 0 THEN 1 ELSE 10 * Pow10(n - 1)

RECURSIVE WeightedSum(_, _, _)
WeightedSum(s, p, q) ==
    IF p > q THEN 0
    ELSE DigitVal(s[p]) * Pow10(q - p) + WeightedSum(s, p + 1, q)

FirstEmbeddedInteger(s) ==
    IF \A k \in 1..Len(s) : s[k] \notin Digits THEN 0
    ELSE LET p == CHOOSE x \in 1..Len(s) :
                     /\ s[x] \in Digits
                     /\ \A k \in 1..(x - 1) : s[k] \notin Digits
             q == CHOOSE y \in p..Len(s) :
                     /\ \A k \in p..y : s[k] \in Digits
                     /\ y = Len(s) \/ s[y + 1] \notin Digits
         IN  WeightedSum(s, p, q)

Occurrences(l, x) == Cardinality({k \in 1..Len(l) : l[k] = x})

IsPermutation(a, b) ==
    /\ Len(a) = Len(b)
    /\ \A k \in 1..Len(b) : Occurrences(a, b[k]) = Occurrences(b, b[k])

\* C9: natural_segment_order returns a permutation of its input in which
\* the first embedded integer of the keys is non-decreasing, a key without
\* digits counting as 0; [segment10, segment2, segment1] yields
\* [segment1, segment2, segment10].
C9_NaturalOrder ==
    ordered.called =>
       /\ IsPermutation(ordered.result, segments)
       /\ \A a, b \in 1..Len(ordered.result) :
             a < b => FirstEmbeddedInteger(ordered.result[a])
                         <= FirstEmbeddedInteger(ordered.result[b])
       /\ segments = <<K10, K2, K1>> => ordered.result = <<K1, K2, K10>>

\* the call on [segment10, segment2, segment1] has returned
C9_Witness ==
    /\ ordered.called
    /\ segments = <<K10, K2, K1>>
    /\ ordered.result = <<K1, K2, K10>>

(* ---------------------------------------------------------------------- *)
\* C10: when the loop of a run has ended, the list handed to
\* concatenate_segments holds exactly one clip per segment of the selected
\* script, in the order of natural_segment_order, which is the order in
\* which the segments were processed (seg_keys).
C10_ClipsInSegmentOrder ==
    \A t \in Tasks :
       t.pc = "assemble" =>
          LET clips == t.segment_output_paths
              order == natural_segment_order(t.selected_script)
          IN  /\ Len(clips) = Len(t.selected_script)
              /\ \A k \in 1..Len(t.selected_script) :
                    Occurrences(clips, ClipPath(t.selected_script[k])) = 1
              /\ \A k \in 1..Len(clips) :
                    /\ clips[k] = ClipPath(order[k])
                    /\ clips[k] = ClipPath(t.seg_keys[k])

\* the loop of a run has ended for a script whose segments were generated
\* out of order
C10_Witness ==
    \E t \in Tasks :
       /\ t.pc = "assemble"
       /\ Len(t.selected_script) >= 2
       /\ t.selected_script # t.seg_keys
       /\ Len(t.segment_output_paths) = Len(t.selected_script)

(* ---------------------------------------------------------------------- *)
\* C11: with max_retries = m >= 0, a call whose operation fails k <= m times
\* and then succeeds returns after exactly k + 1 invocations; a call whose
\* operation always fails invokes it exactly m + 1 times and raises an error
\* whose message holds the attempt count m + 1 and the last failure.
C11_RetryCounts ==
    LET m == retry.max_retries
        k == Len(retry.failures)
    IN  /\ retry.pc = "returned" =>
           /\ k <= m
           /\ retry.calls = k + 1
           /\ retry.result = "name"
        /\ retry.pc = "raised" /\ m >= 0 =>
           /\ retry.calls = m + 1
           /\ k = m + 1
           /\ retry.message.attempts = m + 1
           /\ retry.message.cause = retry.failures[k]
        /\ retry.pc \in {"loop", "invoke"} /\ m >= 0 => retry.calls <= m + 1

\* the operation failed on every one of MaxRetries + 1 attempts
C11_Witness ==
    /\ retry.pc = "raised"
    /\ retry.max_retries = MaxRetries
    /\ retry.calls = MaxRetries + 1
    /\ retry.failures[1] # retry.failures[retry.calls]

C14_TrimPadOrPass ==
    adjust.pc = "returned" =>
       LET d == adjust.clip.duration
           t == adjust.target_duration
           orig == adjust.clip.frames
           out == adjust.final_clip.frames
           period == 1000 \div adjust.fps
           at == IF d - period > 0 THEN d - period ELSE 0
       IN  /\ d > t + Tol =>
              /\ Len(out) = t
              /\ \A k \in 1..t : out[k] = orig[k]
           /\ d < t - Tol =>
              /\ Len(out) = t
              /\ \A k \in 1..d : out[k] = orig[k]
              /\ \A k \in (d + 1)..t :
                    out[k] = IF d = 0 THEN adjust.clip.first ELSE orig[at + 1]
           /\ d <= t + Tol /\ d >= t - Tol => adjust.final_clip = adjust.clip

\* a clip of 3 ms has been extended by a frame that is not its first one
C14_Witness ==
    /\ adjust.pc = "returned"
    /\ adjust.clip.duration = 3
    /\ adjust.target_duration = MaxDur
    /\ adjust.fps = 500
    /\ adjust.final_clip.frames[MaxDur] = 2

(* ---------------------------------------------------------------------- *)
\* C15: for every video duration v (the two videos together) and audio
\* duration a, both tracks of the clip that combine_two_videos writes last
\* max(min(v, a) - eps, 0), so neither is longer than it was on input.
C15_TracksClampedToShortest ==
    combine.pc = "returned" =>
       LET v == combine.v1.duration + combine.v2.duration
           a == combine.aud.duration
           lo == IF v <= a THEN v ELSE a
           expected == IF lo >= 1 THEN lo - 1 ELSE 0
       IN  /\ combine.seg.video.duration = expected
           /\ Len(combine.seg.video.frames) = expected
           /\ combine.seg.audio.duration = expected
           /\ combine.seg.video.duration <= v
           /\ combine.seg.audio.duration <= a

\* videos longer than the audio were cut to the audio, less the epsilon
C15_Witness ==
    /\ combine.pc = "returned"
    /\ combine.v1.duration = 2
    /\ combine.v2.duration = 3
    /\ combine.aud.duration = 3
    /\ combine.seg.video.duration = 2
    /\ combine.seg.audio.duration = 2

(* ---------------------------------------------------------------------- *)
\* C16: the prompt stage never aborts a run: whatever the lookup or the
\* collaborator fails with or returns, the segment goes on to the image
\* stage, with the segment text as the prompt of each image that has no
\* valid prompt.
HasValidPrompt(entry) == entry.t = "map" /\ entry.prompt # None

C16_PromptStageNeverAborts ==
    \A c \in Stages :
       /\ c.pc # "failed"
       /\ c.pc = "images" =>
             /\ c.prompt1 = IF HasValidPrompt(c.image_prompts.image1)
                            THEN c.image_prompts.image1.prompt ELSE SegText
             /\ c.prompt2 = IF HasValidPrompt(c.image_prompts.image2)
                            THEN c.image_prompts.image2.prompt ELSE SegText

(* ---------------------------------------------------------------------- *)
\* C17: when generate_prompts_for_script writes the prompts of one
\* (script, segment) into the cache, every entry the file held just before
\* the write for another segment or another script is still there, with
\* the same value.
Saves(c) == c.pc = "save" /\ CopiesIn(c, stages') < CopiesIn(c, stages)

C17_SaveKeepsOtherEntries ==
    [][ \A c \in Stages :
          Saves(c) =>
             LET before == promptFiles[cwd].all
                 after == promptFiles'[cwd].all
             IN  \A s \in DOMAIN before : \A g \in DOMAIN before[s] :
                    <<s, g>> # <<c.script_key, c.seg_key>> =>
                       /\ s \in DOMAIN after
                       /\ g \in DOMAIN after[s]
                       /\ after[s][g] = before[s][g] ]_vars

(* ---------------------------------------------------------------------- *)
\* C18: if the cache of the session holds prompts for (script, segment)
\* when a run reaches the prompt stage of that segment, the collaborator
\* is not invoked for it and the cached prompts are the ones handed to
\* image generation.
C18_CachedPromptsAreUsed ==
    \A c \in Stages :
       /\ c.pc \in {"images", "failed"}
       /\ HasValidPrompt(c.held.image1)
       /\ HasValidPrompt(c.held.image2)
       => /\ c.pc = "images"
          /\ c.invoked = 0
          /\ c.prompt1 = c.held.image1.prompt
          /\ c.prompt2 = c.held.image2.prompt

(* ---------------------------------------------------------------------- *)
\* C19: generate_image_with_fallback calls the secondary backend if and
\* only if the primary backend failed; it succeeds if either backend
\* succeeds; if both fail it raises one error that names the failure of the
\* primary and the failure of the secondary.
CallsFor(n, backend) ==
    { k \in 1..Len(fallback.calls) :
         fallback.calls[k].image = n /\ fallback.calls[k].backend = backend }

C19_SecondaryOnlyAfterPrimaryFailure ==
    fallback.pc # "idle" =>
    \A n \in 1..2 :
       LET hf == CallsFor(n, "hf")
           local == CallsFor(n, "local")
           pending == fallback.n = n /\ fallback.pc \in {"primary", "secondary"}
           hfFailed == \E k \in hf : fallback.calls[k].outcome # "ok"
           ok == \E k \in hf \cup local : fallback.calls[k].outcome = "ok"
           returned == Len(fallback.saved) >= n
       IN  /\ Cardinality(hf) <= 1 /\ Cardinality(local) <= 1
           /\ local # {} => hfFailed
           /\ hfFailed /\ ~pending => local # {}
           /\ \A k \in local : k - 1 \in hf
           /\ ~pending /\ hf # {} => (returned <=> ok)
           /\ ~pending /\ hf # {} /\ ~ok =>
                 /\ fallback.pc = "raised"
                 /\ \E k \in hf : fallback.raised.hf_error
                                     = fallback.calls[k].outcome
                 /\ \E k \in local : fallback.raised.fallback_error
                                        = fallback.calls[k].outcome

\* the second image failed on both backends, with different errors, after
\* the first image was made by the primary backend
C19_Witness ==
    /\ fallback.pc = "raised"
    /\ fallback.saved = <<"hf">>
    /\ Len(fallback.calls) = 3
    /\ fallback.raised.hf_error # fallback.raised.fallback_error

(* ---------------------------------------------------------------------- *)
\* C20: a run request that names an unknown session, or a script key that
\* scripts.json does not hold or holds with a value that is not a mapping,
\* is rejected and leaves the persisted snapshot as it was: no run is
\* scheduled for it and "queued" is not written for it.  (A request without
\* a script key is the stuttering step of api_run_session.)
RunAccepted(p) == tasks' = tasks (+) SetToBag({Scheduled(p)})

C20_BadRunRequestIsRejected ==
    [][ /\ \A p \in Payloads : RunAccepted(p) => CanStart(p.script_key)
        /\ statusFile' # statusFile /\ StateOf(statusFile') = "queued" =>
              CanStart(statusFile'.selected_script) ]_vars

(* ---------------------------------------------------------------------- *)
\* C21: whichever writes of status.json fail, a run goes through the
\* stages, and ends, as the run whose writes all succeed: each of its steps
\* leads where the position in the code, the scripts and the collaborators
\* lead, and never to an end that a write caused.
Control(t) ==
    [ pc |-> t.pc, mode |-> t.mode, voice |-> t.voice, i |-> t.i,
      seg_keys |-> t.seg_keys, clips |-> t.segment_output_paths,
      outcome |-> t.outcome, raised |-> t.raised ]

ControlFollows(t, t2) ==
    LET a == Control(t)
        b == Control(t2)
        n == Len(a.seg_keys)
        failed == \E e \in Messages : b = Control(Ended("failed", e))
    IN  CASE a.pc = "scheduled" ->
                IF CanStart(t.script_key)
                THEN /\ b.seg_keys = natural_segment_order(
                                        scriptsFile.map[t.script_key].segs)
                     /\ b.pc = IF b.seg_keys = <<>> THEN "assemble"
                               ELSE "segment"
                     /\ b.i = 1 /\ b.clips = <<>> /\ b.outcome = "none"
                ELSE b = Control(Ended("aborted", None))
          [] a.pc = "segment" ->
                b = [a EXCEPT !.pc = "stages"]
          [] a.pc = "stages" ->
                \/ failed
                \/ b = [a EXCEPT
                          !.pc = IF a.i < n THEN "segment" ELSE "assemble",
                          !.i = a.i + 1,
                          !.clips = Append(a.clips, ClipPath(a.seg_keys[a.i]))]
          [] a.pc = "assemble" ->
                \/ failed
                \/ a.clips # <<>> /\ b = Control(Ended("completed", None))
          [] OTHER -> FALSE

C21_WritesNeverSteerTheRun ==
    [][ \A t \in Tasks :
          t.pc # "done" =>
             \A t2 \in BagToSet(tasks') :
                t2 # t /\ Becomes(t, t2) => ControlFollows(t, t2) ]_vars

\* a run has completed although none of its snapshots reached the disk
C21_Witness ==
    /\ faultyDisk
    /\ StateOf(statusFile) = "created"
    /\ \E t \in Tasks : t.outcome = "completed"

(* ---------------------------------------------------------------------- *)
\* C22: under every interleaving of two runs of different sessions in one
\* process, every file a run names by a relative path (the scripts file,
\* the prompt cache, the images and videos of a segment) is found inside
\* the directory of the session of that run.
InsideSession(dir, s) == Len(dir) >= 1 /\ dir[1] = s

C22_AccessesStayInOwnSession ==
    crossRuns.pc = "running" =>
       \A a \in crossRuns.accesses : InsideSession(a.dir, a.by)

(* ---------------------------------------------------------------------- *)
\* C23: while a run is in progress, between its first write of "running"
\* and its last write of completed or failed, every change of the
\* session's status snapshot is a step of that run: no run request, no
\* script generation and no other run of the session changes it.
InProgress(t) == t.pc \in {"segment", "stages", "assemble"}

StepOf(t) == \E t2 \in BagToSet(tasks') : t2 # t /\ Becomes(t, t2)

C23_OnlyTheRunWritesItsSnapshot ==
    [][ \A t \in Tasks :
          InProgress(t) /\ statusFile' # statusFile => StepOf(t) ]_vars

(* ---------------------------------------------------------------------- *)
\* C24: a run in mode images whose collaborators all succeed, for a script
\* of n segments, ends with a snapshot of state completed and progress
\* {total_segments: n, completed: n}, whose artifacts name the final and
\* the subtitled video and exactly n segment clips, one per segment of the
\* script, in ascending order of segment number.
KeyOfClip(clip) == clip[2]

C24_ImagesRunEndToEnd ==
    [][ \A t \in Tasks :
          /\ t.pc = "assemble"
          /\ t.mode = "images"
          /\ Becomes(t, Ended("completed", None))
          => LET n == Len(t.selected_script)
                 clips == statusFile'.artifacts.segments
             IN  /\ statusFile'.state = "completed"
                 /\ statusFile'.progress =
                       [total_segments |-> n, completed |-> n]
                 /\ statusFile'.artifacts.final = "final_output.mp4"
                 /\ statusFile'.artifacts.subtitled =
                       "final_output_subtitled.mp4"
                 /\ Len(clips) = n
                 /\ \A k \in 1..n :
                       Occurrences(clips, ClipPath(t.selected_script[k])) = 1
                 /\ \A j, k \in 1..Len(clips) :
                       j < k => seg_key(KeyOfClip(clips[j]))
                                   <= seg_key(KeyOfClip(clips[k])) ]_vars

\* a run in mode images has completed for a script of MaxSegs segments,
\* generated out of order
C24_Witness ==
    /\ \E t \in Tasks : t.outcome = "completed"
    /\ "artifacts" \in DOMAIN statusFile
    /\ statusFile.state = "completed"
    /\ statusFile.mode = "images"
    /\ statusFile.progress.total_segments = MaxSegs
    /\ Len(statusFile.artifacts.segments) = MaxSegs
    /\ MaxSegs >= 2

(* ---------------------------------------------------------------------- *)
\* C25: any two calls of create_session return distinct session ids, also
\* for ideas of the same slug within one second of the clock, so that a
\* later call never overwrites the idea file or the status snapshot of an
\* earlier one.
C25_SessionIdsDistinct ==
    created.pc = "serving" =>
       LET ids == created.returned
       IN  /\ \A j, k \in 1..Len(ids) : j # k => ids[j] # ids[k]
           /\ Cardinality(DOMAIN created.dirs) = Len(ids)

(* ---------------------------------------------------------------------- *)
\* C26: when generate_scripts_for_session moves a session to
\* scripts_ready, the script_keys it records are exactly the keys of the
\* generated mapping whose value is a script; the key of an invalid
\* marker is not recorded.
Recorded(keys, k) == \E j \in DOMAIN keys : keys[j] = k

MovesToScriptsReady ==
    /\ scriptsFile'.kind = "dict"
    /\ statusFile' # statusFile
    /\ "state" \in DOMAIN statusFile'
    /\ statusFile'.state = "scripts_ready"

C26_OnlyValidKeysRecorded ==
    [][ MovesToScriptsReady =>
          \A k \in DOMAIN scriptsFile'.map :
             Recorded(statusFile'.script_keys, k) <=> scriptsFile'.map[k].valid
      ]_vars

(* ---------------------------------------------------------------------- *)
\* C27: when the script generator returns no valid script (a value that
\* is no mapping, or a mapping whose values are all invalid markers), the
\* session does not reach scripts_ready and its persisted state becomes
\* failed.
NoValidScript(file) ==
    \/ file.kind # "dict"
    \/ \A k \in DOMAIN file.map : ~file.map[k].valid

C27_NoValidScriptMeansFailed ==
    [][ scriptsFile' # scriptsFile /\ NoValidScript(scriptsFile')
          => /\ "state" \in DOMAIN statusFile'
             /\ statusFile'.state = "failed" ]_vars

(* ---------------------------------------------------------------------- *)
\* C28: a script key whose value is not a mapping is in neither
\* ordered_keys nor the menu of pick_script_key, and a run requested for
\* it ends in the checks of run_pipeline: no stage is invoked, no clip is
\* made and no snapshot is written.
InvalidKey(key) ==
    /\ scriptsFile.kind = "dict"
    /\ key \in DOMAIN scriptsFile.map
    /\ ~scriptsFile.map[key].valid

C28_InvalidKeyNeitherOfferedNorRun ==
    /\ [](\A k \in DOMAIN scriptsFile.map :
            InvalidKey(k) =>
               /\ ~Recorded(ordered_keys(scriptsFile.map), k)
               /\ ~Recorded(pick_script_key_menu(scriptsFile.map), k))
    /\ [][ \A t \in Tasks :
             t.pc = "scheduled" /\ InvalidKey(t.script_key) /\ StepOf(t)
             => /\ Becomes(t, Ended("aborted", None))
                /\ statusFile' = statusFile ]_vars

\* the only run requested since the scripts were generated was for the
\* key of an invalid marker, next to a valid script, and it has ended
C28_Witness ==
    /\ scriptsFile.kind = "dict"
    /\ scriptsFile.map["script1"].valid
    /\ InvalidKey("script2")
    /\ ordered_keys(scriptsFile.map) = <<"script1">>
    /\ "state" \in DOMAIN statusFile
    /\ statusFile.state = "queued"
    /\ statusFile.selected_script = "script2"
    /\ BagCardinality(tasks) = 1
    /\ \E t \in Tasks : t.outcome = "aborted"

(* ---------------------------------------------------------------------- *)
\* C29: for every span (start, end) and every video duration D, the span
\* burn_subtitles_from_items renders lies inside [0, D - eps], and a span
\* whose clamped end is not after its clamped start is shown for 0.1 s.
C29_RenderedSpanInsideVideo ==
    subtitle.pc = "rendered" =>
       /\ 0 <= subtitle.set_start
       /\ subtitle.set_start + subtitle.set_duration
             <= subtitle.duration - eps
       /\ Min2(subtitle.end, subtitle.duration - eps) <= subtitle.set_start
             => subtitle.set_duration = MinVisible

(* ---------------------------------------------------------------------- *)
\* C30: for every narration duration T >= 0 the durations
\* build_segment_from_images gives the images sum to exactly T: every
\* image but the last gets T / n, the last gets the remainder.
RECURSIVE SumUpTo(_, _)
SumUpTo(durations, k) ==
    IF k = 0 THEN 0 ELSE SumUpTo(durations, k - 1) + durations[k]

C30_DurationsSumToNarration ==
    slideshow.pc = "built" =>
       LET T == slideshow.total_dur
           n == slideshow.n
           d == slideshow.durations
       IN  /\ SumUpTo(d, n) = T
           /\ \A i \in 1..(n - 1) : d[i] = T \div n
           /\ d[n] = T - (n - 1) * (T \div n)

(* ---------------------------------------------------------------------- *)
\* C31: every snapshot persisted for a session after its creation is a
\* full snapshot: it holds session_id, idea, state and progress, also when
\* an earlier read or write of the status of the session has failed.
FullSnapshot(status) ==
    {"session_id", "idea", "state", "progress"} \subseteq DOMAIN status

C31_EverySnapshotIsFull ==
    sessionDir /\ statusFile # EmptyDict => FullSnapshot(statusFile)

(* ---------------------------------------------------------------------- *)
\* C32 (as stated): for a segment that run_pipeline processes without
\* failure, the stages are invoked group by group: narrate, obtain
\* prompts, generate the two images, in mode videos synthesize the two
\* videos and then reconcile the two durations, combine; none is skipped.
Api == segrun.runner["api"]
Cli == segrun.runner["cli"]

GroupRank(made) ==
    CASE made.stage = "narrate" -> 1
      [] made.stage = "prompts" -> 2
      [] made.stage = "image" -> 3
      [] made.stage = "duration" -> 4
      [] made.stage = "synthesize" -> 5
      [] made.stage = "reconcile" -> 6
      [] OTHER -> 7

\* the order in which each of the two videos is synthesized and then
\* reconciled before the next one is begun
ClipRank(made) ==
    CASE made.stage = "narrate" -> 1
      [] made.stage = "prompts" -> 2
      [] made.stage = "image" -> 2 + made.call.n
      [] made.stage = "duration" -> 5
      [] made.stage = "synthesize" -> 4 + 2 * made.call.n
      [] made.stage = "reconcile" -> 5 + 2 * made.call.n
      [] OTHER -> 10

\* the stages a segment has to pass in a mode, with the image or video
StagesDue(mode) ==
    { <<"narrate", 0>>, <<"prompts", 0>>, <<"image", 1>>, <<"image", 2>>,
      <<"combine", 0>> }
    \cup IF mode = "videos"
         THEN { <<"synthesize", 1>>, <<"synthesize", 2>>,
                <<"reconcile", 1>>, <<"reconcile", 2>> }
         ELSE {}

NoneSkipped(calls, mode) ==
    \A due \in StagesDue(mode) :
       \E k \in DOMAIN calls :
          calls[k].stage = due[1] /\ calls[k].call.n = due[2]

C32_StagesGroupByGroup ==
    segrun.pc = "running" /\ Api.outcome = "finished" =>
       /\ NoneSkipped(Api.calls, segrun.mode)
       /\ \A j, k \in DOMAIN Api.calls :
             j < k => GroupRank(Api.calls[j]) <= GroupRank(Api.calls[k])

\* C32 (amended): the stages are invoked in the order narrate, obtain
\* prompts, image 1, image 2, and in mode videos synthesize video 1,
\* reconcile video 1, synthesize video 2, reconcile video 2, then combine;
\* none is skipped.
C32_StagesClipByClip ==
    segrun.pc = "running" /\ Api.outcome = "finished" =>
       /\ NoneSkipped(Api.calls, segrun.mode)
       /\ \A j, k \in DOMAIN Api.calls :
             j < k => ClipRank(Api.calls[j]) <= ClipRank(Api.calls[k])

\* run_pipeline has processed a segment in mode videos without a failure
C32_Witness ==
    /\ segrun.pc = "running"
    /\ segrun.mode = "videos"
    /\ segrun.fails = {}
    /\ Api.outcome = "finished"
    /\ Len(Api.calls) = 10

(* ---------------------------------------------------------------------- *)
\* C33 (as stated): in mode videos the images of a segment are made by
\* the primary image backend only, the secondary backend is never
\* invoked, and a failure of the backend fails the run.
ImagesMade(calls) == {k \in DOMAIN calls : calls[k].stage = "image"}

FailureIsFatal(r) ==
    \A k \in ImagesMade(r.calls) :
       Raises(r.calls[k].call) => r.outcome = "aborted" /\ k = Len(r.calls)

C33_VideosModeUsesPrimaryBackend ==
    segrun.pc = "running" /\ segrun.mode = "videos" =>
       /\ \A k \in ImagesMade(Api.calls) :
             Api.calls[k].call.f = PrimaryBackend
       /\ FailureIsFatal(Api)

\* C33 (amended): in mode videos the images of a segment are made by
\* generate_image_from_prompt only, the backend that is the fallback of
\* mode images; the backend mode images tries first is never invoked, each
\* image is requested once, and a failure of the request fails the run.
C33_VideosModeUsesOneBackend ==
    segrun.pc = "running" /\ segrun.mode = "videos" =>
       /\ \A k \in ImagesMade(Api.calls) :
             Api.calls[k].call.f = SecondaryBackend
       /\ \A j, k \in ImagesMade(Api.calls) :
             j # k => Api.calls[j].call.n # Api.calls[k].call.n
       /\ FailureIsFatal(Api)

\* in mode videos the request for the second image has failed, and the
\* run has ended with it
C33_Witness ==
    /\ segrun.pc = "running"
    /\ segrun.mode = "videos"
    /\ Api.outcome = "aborted"
    /\ Len(Api.calls) = 4
    /\ Api.calls[4].call = Call(SecondaryBackend, 2)

(* ---------------------------------------------------------------------- *)
\* C38: main() and run_pipeline, given the same script, voice and mode and
\* the same successes and failures of the collaborators, make the same
\* calls with the same arguments, and both finish or both abort, at the
\* same stage.
C38_CliAndApiBehaveAlike ==
    /\ segrun.pc = "running"
    /\ Api.pc = "done"
    /\ Cli.pc = "done"
    => /\ Api.calls = Cli.calls
       /\ Api.outcome = Cli.outcome

(* ---------------------------------------------------------------------- *)
\* C34: two keys with the same embedded integer (or both without digits)
\* come out of natural_segment_order in ascending order of their strings,
\* whatever their order in the input.
CharCode(c) ==
    CASE c = "0" -> 48 [] c = "1" -> 49 [] c = "2" -> 50 [] OTHER -> 115

\* a <= b as Python compares strings
RECURSIVE StrLeq(_, _)
StrLeq(a, b) ==
    IF a = <<>> THEN TRUE
    ELSE IF b = <<>> THEN FALSE
    ELSE IF CharCode(a[1]) # CharCode(b[1])
         THEN CharCode(a[1]) < CharCode(b[1])
    ELSE StrLeq(Tail(a), Tail(b))

C34_TiesInStringOrder ==
    ordered.called =>
       \A j, k \in DOMAIN ordered.result :
          /\ j < k
          /\ seg_key(ordered.result[j]) = seg_key(ordered.result[k])
          => StrLeq(ordered.result[j], ordered.result[k])

(* ---------------------------------------------------------------------- *)
\* C35: the continuity context generate_prompts_for_script passes for a
\* segment holds exactly the cached prompts of the segments of the script
\* that come before it in the order of natural_segment_order, for every
\* set of keys, keys without digits included.
PositionIn(l, x) == CHOOSE k \in DOMAIN l : l[k] = x

Precedes(keys, a, b) ==
    LET order == natural_segment_order(keys)
    IN  PositionIn(order, a) < PositionIn(order, b)

C35_ContextIsTheEarlierSegments ==
    context.pc = "sent" =>
       context.prev =
          { sk \in context.existing :
               Precedes(context.keys, sk, context.segment) }

(* ---------------------------------------------------------------------- *)
\* C36: the selected script, the voice and the mode that the run request
\* recorded in the snapshot (state queued) are the ones every later
\* snapshot of that run carries; here, the first snapshot the run writes.
C36_RunKeepsWhatWasQueued ==
    [][ \A t \in Tasks :
          t.pc = "scheduled" /\ StepOf(t) /\ statusFile' # statusFile
          => /\ statusFile'.selected_script = t.script_key
             /\ statusFile'.voice = t.voice
             /\ statusFile'.mode = t.mode ]_vars

(* ---------------------------------------------------------------------- *)
\* C37: once the candidate scripts of a session are stored, no later
\* operation on the session changes them; a second script generation,
\* before, during or after a run, leaves them as they are.
C37_StoredScriptsNeverChange ==
    [][ scriptsFile.kind = "dict" => scriptsFile' = scriptsFile ]_vars

(* ---------------------------------------------------------------------- *)
\* C40: in every snapshot run_pipeline writes, 0 <= progress.completed <=
\* progress.total_segments, total_segments is the number of segments of
\* the selected script, and completed is the number of segment clips the
\* run has produced so far.
SegmentsOfRun(t) ==
    IF t.pc = "scheduled" THEN Len(scriptsFile.map[t.script_key].segs)
    ELSE Len(t.selected_script)

ClipsAfter(t, t2) ==
    IF t2.pc = "done" THEN Len(t.segment_output_paths)
    ELSE Len(t2.segment_output_paths)

C40_ProgressCountsClips ==
    [][ \A t \in Tasks : \A t2 \in BagToSet(tasks') :
          /\ t.pc # "done"
          /\ t2 # t
          /\ Becomes(t, t2)
          /\ statusFile' # statusFile
          => LET progress == statusFile'.progress
             IN  /\ 0 <= progress.completed
                 /\ progress.completed <= progress.total_segments
                 /\ progress.total_segments = SegmentsOfRun(t)
                 /\ progress.completed = ClipsAfter(t, t2) ]_vars

\* the run has written the snapshot of its last segment
C40_Witness ==
    /\ "progress" \in DOMAIN statusFile
    /\ statusFile.state = "running"
    /\ statusFile.progress = Progress(MaxSegs, MaxSegs)
    /\ \E t \in Tasks :
          t.pc = "assemble" /\ Len(t.segment_output_paths) = MaxSegs

(* ---------------------------------------------------------------------- *)
\* C39: api_get_artifact answers with a file only if the file lies inside
\* the directory of the requested session, for every relpath, also with
\* ".." components and for a session whose name begins another session's
\* name.
C39_ServedFileIsInsideSession ==
    artifact.pc = "answered" /\ artifact.response = "file" =>
       /\ Len(artifact.requested) > Len(SESSIONS_ROOT) + 1
       /\ SubSeq(artifact.requested, 1, Len(SESSIONS_ROOT) + 1)
             = SESSIONS_ROOT \o <<artifact.session_id>>

=============================================================================
